---- MODULE Spec2Model ----
(***************************************************************************)
(* Model of the UTXO transaction codec and signer, the push-data and       *)
(* varint codecs and the address codec of the outscript package.           *)
(*                                                                         *)
(* Representation.  A byte is a number 0..255 and a []byte is a sequence   *)
(* of bytes.  TLC's integers are 32 bits wide and signed, so the uint32    *)
(* and uint64 fields of the program (Version, Vout, Sequence, Locktime,    *)
(* Amount, SigHash, a decoded BtcVarInt) are kept as their little-endian   *)
(* limbs: a sequence of 4 or 8 bytes, least significant first.  A length   *)
(* (a Go int that the model keeps small) is a number.                      *)
(***************************************************************************)
EXTENDS Integers, Sequences, FiniteSets, TLC

VARIABLES
    tx,      \* the transaction under construction (heap form: scripts are references)
    cp,      \* <<>> or <<t>>: the copy made by Dup
    heap,    \* byte buffers: reference -> []byte
    last,    \* the last operation: its name, arguments, result and the state before it
    wire,    \* codec: the byte string handed to ReadFrom
    dec,     \* codec: what ReadFrom returned for wire
    orig,    \* codec: <<>> or <<t>>: the transaction wire was serialized from
    scripts  \* the Script instances: the public key and the name -> bytes cache of each

vars == <<tx, cp, heap, last, wire, dec, orig, scripts>>

----------------------------------------------------------------------------
(* Bytes and fixed-width little-endian integers                            *)

Min(a, b) == IF a < b THEN a ELSE b

\* F(x), with x evaluated once
With(x, F(_)) == CHOOSE r \in {F(v) : v \in {x}} : TRUE

Zeros(n) == [i \in 1..n |-> 0]

Fill(n, b) == [i \in 1..n |-> b]

Reverse(s) == [i \in 1..Len(s) |-> s[Len(s) + 1 - i]]

RECURSIVE Pow256(_)
Pow256(k) == IF k = 0 THEN 1 ELSE 256 * Pow256(k - 1)

\* binary.LittleEndian.AppendUint16/32/64 of a number that fits the model's integers
LE(n, w) == [i \in 1..w |-> IF i <= 3 THEN (n \div Pow256(i - 1)) % 256 ELSE 0]

\* the value of limbs whose bytes above the third are zero
LEValue(s) ==
    (IF Len(s) >= 1 THEN s[1] ELSE 0)
    + (IF Len(s) >= 2 THEN 256 * s[2] ELSE 0)
    + (IF Len(s) >= 3 THEN 65536 * s[3] ELSE 0)

\* limbs widened to a uint64
U64(s) == s \o Zeros(8 - Len(s))

IsSmall(v) == \A i \in 4..Len(v) : v[i] = 0

\* v > n, for uint64 limbs v and a number n < 2^24
U64Gt(v, n) == ~IsSmall(v) \/ LEValue(v) > n

\* a >= b on uint64 limbs (compared from the most significant byte down)
RECURSIVE LimbsGeqFrom(_, _, _)
LimbsGeqFrom(a, b, i) ==
    IF i = 0 THEN TRUE
    ELSE IF a[i] # b[i] THEN a[i] > b[i]
    ELSE LimbsGeqFrom(a, b, i - 1)

U64Geq(a, b) == LimbsGeqFrom(a, b, 8)

----------------------------------------------------------------------------
(* BtcVarInt (btcvarint.go)                                                *)

\* BtcVarInt.Bytes, for a value below 2^24
BtcVarIntBytes(v) ==
    IF v <= 252 THEN <<v>>
    ELSE IF v <= 65535 THEN <<253>> \o LE(v, 2)
    ELSE <<254>> \o LE(v, 4)

\* BtcVarInt.Len, for a value below 2^24
BtcVarIntLen(v) ==
    IF v <= 252 THEN 1
    ELSE IF v <= 65535 THEN 3
    ELSE 5

----------------------------------------------------------------------------
(* readHelper (util.go).  A reader state is [pos, err]: the number of      *)
(* bytes consumed from buf and the sticky error ("" for nil).              *)

NoErr == ""

Reader0 == [pos |-> 0, err |-> NoErr]

\* readHelper.readFull on a fresh array of w zero bytes: io.ReadFull fills what
\* is there and reports io.EOF or io.ErrUnexpectedEOF when it is short.
readFull(buf, st, w) ==
    IF st.err # NoErr THEN [st |-> st, val |-> Zeros(w)]
    ELSE LET n == Min(w, Len(buf) - st.pos)
         IN  [st  |-> [pos |-> st.pos + n,
                       err |-> IF n = w THEN NoErr
                               ELSE IF n = 0 THEN "EOF" ELSE "ErrUnexpectedEOF"],
              val |-> SubSeq(buf, st.pos + 1, st.pos + n) \o Zeros(w - n)]

\* readHelper.readByte (bytes.Reader is an io.ByteReader)
readByte(buf, st) ==
    IF st.err # NoErr THEN [st |-> st, val |-> 0]
    ELSE IF st.pos >= Len(buf) THEN [st |-> [pos |-> st.pos, err |-> "EOF"], val |-> 0]
    ELSE [st |-> [pos |-> st.pos + 1, err |-> NoErr], val |-> buf[st.pos + 1]]

readUint16le(buf, st) == readFull(buf, st, 2)

readUint32le(buf, st) == readFull(buf, st, 4)

readUint64le(buf, st) == readFull(buf, st, 8)

\* BtcVarInt.ReadFrom: the value as uint64 limbs
BtcVarIntReadFrom(buf, st) ==
    LET t == readByte(buf, st)
    IN  IF t.val <= 252 THEN [st |-> t.st, val |-> U64(<<t.val>>)]
        ELSE LET r == IF t.val = 253 THEN readUint16le(buf, t.st)
                      ELSE IF t.val = 254 THEN readUint32le(buf, t.st)
                      ELSE readUint64le(buf, t.st)
             IN  [st |-> r.st, val |-> U64(r.val)]

\* readHelper.readTo(&v) for a BtcVarInt v holding prev: skipped once Err is set
readToVarInt(buf, st, prev) ==
    IF st.err # NoErr THEN [st |-> st, val |-> prev]
    ELSE BtcVarIntReadFrom(buf, st)

MaxVarBuf == 100000

\* readHelper.readVarBuf
readVarBuf(buf, st) ==
    IF st.err # NoErr THEN [st |-> st, val |-> <<>>]
    ELSE LET ln == readToVarInt(buf, st, Zeros(8))
         IN  IF ln.val = Zeros(8) THEN [st |-> ln.st, val |-> <<>>]
             ELSE IF U64Gt(ln.val, MaxVarBuf)
                  THEN [st |-> [pos |-> ln.st.pos, err |-> "buffer larger than maximum allowed length"],
                        val |-> <<>>]
             ELSE readFull(buf, ln.st, LEValue(ln.val))

----------------------------------------------------------------------------
(* The transaction model (btctx.go), value form: a script is its bytes.   *)
(* BtcTx       = [Version, In, Out, Locktime]                              *)
(* BtcTxInput  = [TXID, Vout, Script, Sequence, Witnesses]                 *)
(* BtcTxOutput = [Amount, N, Script]                                       *)

TxidLen == 32

EmptyInput ==
    [TXID |-> Zeros(TxidLen), Vout |-> Zeros(4), Script |-> <<>>,
     Sequence |-> Zeros(4), Witnesses |-> <<>>]

EmptyTx == [Version |-> Zeros(4), In |-> <<>>, Out |-> <<>>, Locktime |-> Zeros(4)]

RECURSIVE FlattenRange(_, _, _)
FlattenRange(ss, lo, hi) ==
    IF lo > hi THEN <<>>
    ELSE IF lo = hi THEN ss[lo]
    ELSE FlattenRange(ss, lo, (lo + hi) \div 2) \o FlattenRange(ss, (lo + hi) \div 2 + 1, hi)

\* slices.Concat
Flatten(ss) == With(ss, LAMBDA v : FlattenRange(v, 1, Len(v)))

\* BtcTxInput.Bytes: reversed txid + vout + script_len + script + seq
BtcTxInputBytes(in) ==
    Reverse(in.TXID) \o in.Vout \o BtcVarIntBytes(Len(in.Script)) \o in.Script \o in.Sequence

\* BtcTxOutput.Bytes
BtcTxOutputBytes(out) ==
    out.Amount \o BtcVarIntBytes(Len(out.Script)) \o out.Script

\* the witness section of one input, as exportBytes writes it
WitnessBytes(in) ==
    BtcVarIntBytes(Len(in.Witnesses))
    \o Flatten([k \in 1..Len(in.Witnesses) |->
                   BtcVarIntBytes(Len(in.Witnesses[k])) \o in.Witnesses[k]])

exportBytesOf(t, wit) ==
    t.Version
    \o (IF wit THEN <<0, 1>> ELSE <<>>)
    \o BtcVarIntBytes(Len(t.In))
    \o Flatten([i \in 1..Len(t.In) |-> BtcTxInputBytes(t.In[i])])
    \o BtcVarIntBytes(Len(t.Out))
    \o Flatten([o \in 1..Len(t.Out) |-> BtcTxOutputBytes(t.Out[o])])
    \o (IF wit THEN Flatten([i \in 1..Len(t.In) |-> WitnessBytes(t.In[i])]) ELSE <<>>)
    \o t.Locktime

\* BtcTx.exportBytes
exportBytes(t, wit) == With(t, LAMBDA v : exportBytesOf(v, wit))

\* HasWitness looking at the first input only
HasWitness_FirstInputOnly(t) == Len(t.In) >= 1 /\ Len(t.In[1].Witnesses) > 0

\* BtcTx.HasWitness
HasWitness(t) == \E i \in 1..Len(t.In) : Len(t.In[i].Witnesses) > 0

\* BtcTx.Bytes / MarshalBinary
Bytes(t) == With(t, LAMBDA v : exportBytesOf(v, HasWitness(v)))

RECURSIVE SumRange(_, _, _)
SumRange(s, lo, hi) ==
    IF lo > hi THEN 0
    ELSE IF lo = hi THEN s[lo]
    ELSE SumRange(s, lo, (lo + hi) \div 2) + SumRange(s, (lo + hi) \div 2 + 1, hi)

SumSeq(s) == With(s, LAMBDA v : SumRange(v, 1, Len(v)))

\* BtcTxInput.computeSize
inputComputeSize(in) == 32 + 4 + BtcVarIntLen(Len(in.Script)) + Len(in.Script) + 4

\* BtcTxInput.computeWitnessSize
computeWitnessSize(in) ==
    BtcVarIntLen(Len(in.Witnesses))
    + SumSeq([k \in 1..Len(in.Witnesses) |->
                 BtcVarIntLen(Len(in.Witnesses[k])) + Len(in.Witnesses[k])])

\* BtcTxOutput.computeSize
outputComputeSize(out) == 8 + BtcVarIntLen(Len(out.Script)) + Len(out.Script)

ComputeSizeOf(t) ==
    LET ln    == 4 + BtcVarIntLen(Len(t.In)) + BtcVarIntLen(Len(t.Out)) + 4
                 + SumSeq([i \in 1..Len(t.In) |-> inputComputeSize(t.In[i])])
                 + SumSeq([o \in 1..Len(t.Out) |-> outputComputeSize(t.Out[o])])
        witln == SumSeq([i \in 1..Len(t.In) |-> computeWitnessSize(t.In[i])])
    IN  IF witln = 0 THEN ln
        ELSE ln + ((witln + 2) \div 4) + (IF (witln + 2) % 4 # 0 THEN 1 ELSE 0)

\* BtcTx.ComputeSize
ComputeSize(t) == With(t, LAMBDA v : ComputeSizeOf(v))

----------------------------------------------------------------------------
(* Decoding (btctx.go ReadFrom).  A result is [tx, err, panic]: the        *)
(* transaction as far as it was filled, the error returned ("" for nil)    *)
(* and whether the call ended in a run-time panic instead of returning.    *)

MaxInCnt == 10000

MaxOutCnt == 65536

\* BtcTxInput.ReadFrom without slices.Reverse(in.TXID[:])
BtcTxInputReadFrom_NoReverse(buf, st) ==
    LET id  == readFull(buf, st, TxidLen)
        vo  == readUint32le(buf, id.st)
        sc  == readVarBuf(buf, vo.st)
        sq  == readUint32le(buf, sc.st)
    IN  [st  |-> sq.st,
         val |-> [TXID |-> id.val, Vout |-> vo.val, Script |-> sc.val,
                  Sequence |-> sq.val, Witnesses |-> <<>>]]

\* BtcTxInput.ReadFrom
BtcTxInputReadFrom(buf, st) ==
    LET id  == readFull(buf, st, TxidLen)
        vo  == readUint32le(buf, id.st)
        sc  == readVarBuf(buf, vo.st)
        sq  == readUint32le(buf, sc.st)
    IN  [st  |-> sq.st,
         val |-> [TXID |-> Reverse(id.val), Vout |-> vo.val, Script |-> sc.val,
                  Sequence |-> sq.val, Witnesses |-> <<>>]]

\* BtcTxOutput.ReadFrom (N is set by the caller)
BtcTxOutputReadFrom(buf, st, n) ==
    LET am == readUint64le(buf, st)
        sc == readVarBuf(buf, am.st)
    IN  [st |-> sc.st, val |-> [Amount |-> am.val, N |-> n, Script |-> sc.val]]

\* for n := range tx.In { tx.In[n] = &BtcTxInput{}; h.readTo(tx.In[n]) }
RECURSIVE readInputs(_, _, _)
readInputs(buf, st, cnt) ==
    IF cnt = 0 THEN [st |-> st, val |-> <<>>]
    ELSE IF st.err # NoErr THEN [st |-> st, val |-> [i \in 1..cnt |-> EmptyInput]]
    ELSE LET one  == BtcTxInputReadFrom(buf, st)
             rest == readInputs(buf, one.st, cnt - 1)
         IN  [st |-> rest.st, val |-> <<one.val>> \o rest.val]

\* for n := range tx.Out { tx.Out[n] = &BtcTxOutput{N: n}; h.readTo(tx.Out[n]) }
RECURSIVE readOutputs(_, _, _, _)
readOutputs(buf, st, cnt, n) ==
    IF cnt = 0 THEN [st |-> st, val |-> <<>>]
    ELSE IF st.err # NoErr
         THEN [st |-> st,
               val |-> [i \in 1..cnt |-> [Amount |-> Zeros(8), N |-> n + i - 1, Script |-> <<>>]]]
    ELSE LET one  == BtcTxOutputReadFrom(buf, st, n)
             rest == readOutputs(buf, one.st, cnt - 1, n + 1)
         IN  [st |-> rest.st, val |-> <<one.val>> \o rest.val]

\* for n := range in.Witnesses { in.Witnesses[n] = h.readVarBuf() }
RECURSIVE readWitnessItems(_, _, _)
readWitnessItems(buf, st, cnt) ==
    IF cnt = 0 THEN [st |-> st, val |-> <<>>]
    ELSE IF st.err # NoErr THEN [st |-> st, val |-> [i \in 1..cnt |-> <<>>]]
    ELSE LET one  == readVarBuf(buf, st)
             rest == readWitnessItems(buf, one.st, cnt - 1)
         IN  [st |-> rest.st, val |-> <<one.val>> \o rest.val]

\* make([][]byte, n) for a uint64 n: the run time panics ("makeslice: len out of
\* range") when n slice headers of 24 bytes exceed the 2^48 bytes it can address,
\* that is when n >= 0x0AAAAAAAAAAB.
MakeSliceLimit == <<171, 170, 170, 170, 170, 10, 0, 0>>

makeWitnessesPanics(cnt) == U64Geq(cnt, MakeSliceLimit)

\* the segwit loop of ReadFrom over the inputs from index i on
RECURSIVE readWitnesses(_, _, _, _)
readWitnesses(buf, st, ins, i) ==
    IF i > Len(ins) THEN [st |-> st, val |-> ins, panic |-> FALSE]
    ELSE LET cnt == readToVarInt(buf, st, Zeros(8))
         IN  IF makeWitnessesPanics(cnt.val)
             THEN [st |-> cnt.st, val |-> ins, panic |-> TRUE]
             ELSE IF ~IsSmall(cnt.val)   \* 2^24 items or more: not followed by the model
             THEN [st |-> [pos |-> cnt.st.pos, err |-> "allocation beyond the model"],
                   val |-> ins, panic |-> FALSE]
             ELSE LET items == readWitnessItems(buf, cnt.st, LEValue(cnt.val))
                  IN  readWitnesses(buf, items.st,
                                    [ins EXCEPT ![i].Witnesses = items.val], i + 1)

\* BtcTx.ReadFrom on a fresh BtcTx, in the order of its statements.  Each step
\* is handed what the earlier ones read: ver, ins, outs, wits are [st, val].

\* tx.Locktime = h.readUint32le(); return h.ret()
readFromLocktime(ver, outs, wits, lock) ==
    [tx |-> [Version |-> ver.val, In |-> wits.val, Out |-> outs.val, Locktime |-> lock.val],
     err |-> lock.st.err, panic |-> FALSE]

\* if segwit { for _, in := range tx.In { ... } }
readFromWitness(buf, ver, outs, wits) ==
    IF wits.panic
    THEN [tx |-> [Version |-> ver.val, In |-> wits.val, Out |-> outs.val,
                  Locktime |-> Zeros(4)],
          err |-> NoErr, panic |-> TRUE]
    ELSE readFromLocktime(ver, outs, wits, readUint32le(buf, wits.st))

\* tx.Out = make([]*BtcTxOutput, outCnt); for n := range tx.Out { ... }
readFromOut(buf, ver, segwit, ins, outs) ==
    readFromWitness(buf, ver, outs,
                    IF segwit THEN readWitnesses(buf, outs.st, ins.val, 1)
                    ELSE [st |-> outs.st, val |-> ins.val, panic |-> FALSE])

\* h.readTo(&outCnt); if outCnt > 65536 { return h.err(...) }
readFromOutCnt(buf, ver, segwit, ins, outCnt) ==
    IF U64Gt(outCnt.val, MaxOutCnt)
    THEN [tx |-> [EmptyTx EXCEPT !.Version = ver.val, !.In = ins.val],
          err |-> "invalid transaction: too many inputs", panic |-> FALSE]
    ELSE readFromOut(buf, ver, segwit, ins,
                     readOutputs(buf, outCnt.st, LEValue(outCnt.val), 0))

\* tx.In = make([]*BtcTxInput, inCnt); for n := range tx.In { ... }
readFromIn(buf, ver, segwit, ins) ==
    readFromOutCnt(buf, ver, segwit, ins, readToVarInt(buf, ins.st, Zeros(8)))

\* if inCnt > 10000 { return h.err(...) }
readFromInCnt(buf, ver, segwit, inCnt) ==
    IF U64Gt(inCnt.val, MaxInCnt)
    THEN [tx |-> [EmptyTx EXCEPT !.Version = ver.val],
          err |-> "invalid transaction: too many inputs", panic |-> FALSE]
    ELSE readFromIn(buf, ver, segwit, readInputs(buf, inCnt.st, LEValue(inCnt.val)))

\* if inCnt == 0 { segwit = true; h.readByte(); h.readTo(&inCnt) }
readFromMarker(buf, ver, c1) ==
    IF c1.val = Zeros(8)
    THEN readFromInCnt(buf, ver, TRUE, readToVarInt(buf, readByte(buf, c1.st).st, c1.val))
    ELSE readFromInCnt(buf, ver, FALSE, c1)

\* tx.Version = h.readUint32le(); h.readTo(&inCnt)
readFromVersion(buf, ver) == readFromMarker(buf, ver, readToVarInt(buf, ver.st, Zeros(8)))

BtcTxReadFrom(buf) == readFromVersion(buf, readUint32le(buf, Reader0))

----------------------------------------------------------------------------
(* Specification SpecCodec: a transaction is serialized with               *)
(* MarshalBinary and the bytes are decoded with UnmarshalBinary.           *)

MaxCodecIn == 2
MaxCodecOut == 2
LongScript == 253

TxidA == [i \in 1..TxidLen |-> i]

SeqsUpTo(S, n) == UNION {[1..k -> S] : k \in 0..n}

CodecScripts == {<<>>, <<81, 82, 83>>, Fill(LongScript, 7)}

CodecWitnesses == {<<>>, << <<>> >>, << <<48, 1>>, <<2, 3, 4>> >>}

CodecInputs ==
    {[TXID |-> TxidA, Vout |-> <<1, 0, 0, 0>>, Script |-> s,
      Sequence |-> <<254, 255, 255, 255>>, Witnesses |-> w] :
        s \in CodecScripts, w \in CodecWitnesses}

CodecOutputs(n) ==
    [o \in 1..n |-> [Amount |-> <<o, 2, 0, 0, 0, 0, 0, 0>>, N |-> o - 1,
                     Script |-> IF o = 1 THEN Fill(LongScript, 7) ELSE <<118, 169>>]]

CodecTxs ==
    {[Version |-> <<1, 0, 0, 0>>, In |-> ins, Out |-> CodecOutputs(n), Locktime |-> lk] :
        ins \in SeqsUpTo(CodecInputs, MaxCodecIn), n \in 0..MaxCodecOut,
        lk \in {<<0, 0, 0, 0>>, <<17, 0, 0, 0>>}}

NoDec == [tx |-> EmptyTx, err |-> NoErr, panic |-> FALSE]

BuilderIdle == tx = EmptyTx /\ cp = <<>> /\ heap = <<>> /\ scripts = <<>>

CodecInit ==
    /\ BuilderIdle
    /\ orig \in {<<t>> : t \in CodecTxs}
    /\ wire = <<>>
    /\ dec = NoDec
    /\ last = [op |-> "new"]

\* buf, _ := tx.MarshalBinary()
MarshalBinary ==
    /\ last.op = "new"
    /\ wire' = Bytes(orig[1])
    /\ last' = [op |-> "MarshalBinary"]
    /\ UNCHANGED <<tx, cp, heap, dec, orig, scripts>>

\* err := (&BtcTx{}).UnmarshalBinary(buf)
UnmarshalBinary ==
    /\ last.op = "MarshalBinary"
    /\ dec' = BtcTxReadFrom(wire)
    /\ last' = [op |-> "UnmarshalBinary"]
    /\ UNCHANGED <<tx, cp, heap, wire, orig, scripts>>

\* n := tx.ComputeSize()
ComputeSizeCall ==
    /\ last.op = "new"
    /\ last' = [op |-> "ComputeSize", size |-> ComputeSize(orig[1])]
    /\ UNCHANGED <<tx, cp, heap, wire, dec, orig, scripts>>

CodecNext == MarshalBinary \/ UnmarshalBinary \/ ComputeSizeCall

SpecCodec == CodecInit /\ [][CodecNext]_vars

SameInput(a, b) ==
    /\ a.TXID = b.TXID /\ a.Vout = b.Vout /\ a.Script = b.Script
    /\ a.Sequence = b.Sequence /\ a.Witnesses = b.Witnesses

SameOutput(a, b) == a.Amount = b.Amount /\ a.Script = b.Script

SameTx(a, b) ==
    /\ a.Version = b.Version /\ a.Locktime = b.Locktime
    /\ Len(a.In) = Len(b.In) /\ Len(a.Out) = Len(b.Out)
    /\ \A i \in 1..Len(a.In) : SameInput(a.In[i], b.In[i])
    /\ \A o \in 1..Len(a.Out) : SameOutput(a.Out[o], b.Out[o])

RoundTrips ==
    /\ dec.err = NoErr /\ ~dec.panic
    /\ SameTx(dec.tx, orig[1])
    /\ Bytes(dec.tx) = wire

\* C1 (as stated): every transaction within the decoder's limits, decoded from its own
\* Bytes(), comes back without error, field for field, and re-serializes to the same bytes.
C1_RoundTripEveryTx == last.op = "UnmarshalBinary" => RoundTrips

\* C1 (amended): every transaction within the decoder's limits that has at least one
\* input, decoded from its own Bytes(), comes back without error, field for field, and
\* re-serializes to the same bytes.
C1_RoundTripWithInputs ==
    (last.op = "UnmarshalBinary" /\ Len(orig[1].In) >= 1) => RoundTrips

\* a witness-format transaction of two inputs, one of them without witness, was decoded
C1_Witness ==
    /\ last.op = "UnmarshalBinary"
    /\ Len(orig[1].In) = 2
    /\ orig[1].In[1].Witnesses = <<>>
    /\ Len(orig[1].In[2].Witnesses) = 2
    /\ Len(orig[1].Out) = 2
    /\ RoundTrips

----------------------------------------------------------------------------
(* Specification SpecDecode: ReadFrom on byte strings that are not the     *)
(* serialization of any transaction.  A well-formed serialization has one  *)
(* of its bytes replaced by a forged count or length and is then cut       *)
(* short at any point.                                                     *)

DecodeInput(w) ==
    [TXID |-> TxidA, Vout |-> <<1, 0, 0, 0>>, Script |-> <<81>>,
     Sequence |-> <<9, 0, 0, 0>>, Witnesses |-> w]

DecodeOutput == [Amount |-> <<1, 2, 0, 0, 0, 0, 0, 0>>, N |-> 0, Script |-> <<118>>]

DecodeBaseTxs ==
    {[Version |-> <<1, 0, 0, 0>>, In |-> <<DecodeInput(w)>>, Out |-> <<DecodeOutput>>,
      Locktime |-> <<17, 0, 0, 0>>] : w \in {<<>>, << <<48>> >>}}

\* counts and lengths an adversary may declare: 0, 3, 2^24 (above every limit of
\* the decoder) and 2^63
ForgedVarInts ==
    {<<0>>, <<3>>, <<254, 0, 0, 0, 1>>, <<255, 0, 0, 0, 0, 0, 0, 0, 128>>}

\* a caller that gets an error or a panic has no transaction to look at
DropTx(r) == [r EXCEPT !.tx = IF r.err = NoErr /\ ~r.panic THEN r.tx ELSE EmptyTx]

DecodeInit ==
    /\ BuilderIdle
    /\ orig \in {<<t>> : t \in DecodeBaseTxs}
    /\ wire = Bytes(orig[1])
    /\ dec = NoDec
    /\ last = [op |-> "new"]

\* the byte at position i is replaced by a forged count or length
Corrupt(i, enc) ==
    /\ last.op = "new"
    /\ wire' = SubSeq(wire, 1, i - 1) \o enc \o SubSeq(wire, i + 1, Len(wire))
    /\ last' = [op |-> "Corrupt"]
    /\ UNCHANGED <<tx, cp, heap, dec, orig, scripts>>

\* only the first k bytes arrive
Truncate(k) ==
    /\ last.op \in {"new", "Corrupt"}
    /\ wire' = SubSeq(wire, 1, k)
    /\ last' = [op |-> "Truncate"]
    /\ UNCHANGED <<tx, cp, heap, dec, orig, scripts>>

\* _, err := (&BtcTx{}).ReadFrom(bytes.NewReader(wire))
ReadFrom ==
    /\ last.op # "ReadFrom"
    /\ dec' = DropTx(BtcTxReadFrom(wire))
    /\ last' = [op |-> "ReadFrom"]
    /\ UNCHANGED <<tx, cp, heap, wire, orig, scripts>>

DecodeNext ==
    \/ \E i \in 1..Len(wire), enc \in ForgedVarInts : Corrupt(i, enc)
    \/ \E k \in 0..(Len(wire) - 1) : Truncate(k)
    \/ ReadFrom

SpecDecode == DecodeInit /\ [][DecodeNext]_vars

\* C8: ReadFrom ends with a decoded transaction or an error and never panics,
\* whatever counts and lengths the bytes declare and wherever they stop.
C8_ReadFromNeverPanics == last.op = "ReadFrom" => ~dec.panic

----------------------------------------------------------------------------
(* Push-data encoding (PushBytes) and the script formats (format.go)       *)

\* PushBytesOf with OP_PUSHDATA1 chosen up to 256 bytes, one more than its length byte holds
PushBytesOf_WidePushdata1(v) ==
    IF Len(v) <= 75 THEN <<Len(v)>> \o v
    ELSE IF Len(v) <= 256 THEN <<76, Len(v) % 256>> \o v
    ELSE IF Len(v) <= 65535 THEN <<77>> \o LE(Len(v), 2) \o v
    ELSE <<78>> \o LE(Len(v), 4) \o v

PushBytesOf(v) ==
    IF Len(v) <= 75 THEN <<Len(v)>> \o v
    ELSE IF Len(v) <= 255 THEN <<76, Len(v)>> \o v
    ELSE IF Len(v) <= 65535 THEN <<77>> \o LE(Len(v), 2) \o v
    ELSE <<78>> \o LE(Len(v), 4) \o v

\* PushBytes
PushBytes(b) == With(b, LAMBDA v : PushBytesOf(v))

RECURSIVE WeightedSum(_, _, _)
WeightedSum(s, lo, hi) ==
    IF lo > hi THEN 0
    ELSE IF lo = hi THEN ((lo % 251) + 1) * s[lo]
    ELSE WeightedSum(s, lo, (lo + hi) \div 2) + WeightedSum(s, (lo + hi) \div 2 + 1, hi)

\* a stand-in for a cryptographic hash: n bytes that depend on the length of
\* the message and on every byte of it together with its position
DigestOf(salt, sum, n) == [i \in 1..n |-> (salt + sum + (sum \div 256) + 7 * i) % 256]

Digest(salt, s, n) ==
    With(s, LAMBDA v :
    With(WeightedSum(v, 1, Len(v)) + 31 * Len(v), LAMBDA sum : DigestOf(salt, sum, n)))

\* sha256.New
SHA256(s) == Digest(1, s, 32)

\* ripemd160.New
RIPEMD160(s) == Digest(2, s, 20)

\* cryptutil.Hash(v, sha256.New, sha256.New)
Hash256(s) == SHA256(SHA256(s))

\* cryptutil.Hash(v, sha256.New, ripemd160.New)
Hash160(s) == RIPEMD160(SHA256(s))

\* the keys of the model: a key is its number
Keys == {1, 2}

\* PublicKey.SerializeCompressed: 02/03 and the X coordinate
SerializeCompressed(k) == <<2 + (k % 2)>> \o Fill(32, 16 * k)

\* PublicKey.SerializeUncompressed: 04 and the X and Y coordinates
SerializeUncompressed(k) == <<4>> \o Fill(32, 16 * k) \o Fill(32, 16 * k + 1)

\* the formats of the Formats table that are built from the key alone
KeyFormats == {"p2pkh", "p2pukh", "p2pk", "p2puk", "p2wpkh"}

P2shFormats == {"p2sh:p2pkh", "p2sh:p2pukh", "p2sh:p2pk", "p2sh:p2puk", "p2sh:p2wpkh"}

P2wshFormats == {"p2wsh:p2pkh", "p2wsh:p2pukh", "p2wsh:p2pk", "p2wsh:p2puk", "p2wsh:p2wpkh"}

\* the format a p2sh:* or p2wsh:* entry looks up
Lookup(name) ==
    CASE name \in {"p2sh:p2pkh", "p2wsh:p2pkh"} -> "p2pkh"
      [] name \in {"p2sh:p2pukh", "p2wsh:p2pukh"} -> "p2pukh"
      [] name \in {"p2sh:p2pk", "p2wsh:p2pk"} -> "p2pk"
      [] name \in {"p2sh:p2puk", "p2wsh:p2puk"} -> "p2puk"
      [] name \in {"p2sh:p2wpkh", "p2wsh:p2wpkh"} -> "p2wpkh"

\* Script.getPubKeyBytes for a secp256k1 key
getPubKeyBytes(k, typ) ==
    IF typ = "pubkey:comp" THEN SerializeCompressed(k) ELSE SerializeUncompressed(k)

\* the Formats entries built from the key alone
KeyFormat(k, name) ==
    CASE name = "p2pkh" ->
             <<118, 169>> \o PushBytes(Hash160(SerializeCompressed(k))) \o <<136, 172>>
      [] name = "p2pukh" ->
             <<118, 169>> \o PushBytes(Hash160(SerializeUncompressed(k))) \o <<136, 172>>
      [] name = "p2pk" -> PushBytes(SerializeCompressed(k)) \o <<172>>
      [] name = "p2puk" -> PushBytes(SerializeUncompressed(k)) \o <<172>>
      [] name = "p2wpkh" -> <<0>> \o PushBytes(Hash160(SerializeCompressed(k)))

\* New(pubkey).Generate(name) on a fresh Script, for a name it knows
Generate(k, name) ==
    IF name \in {"pubkey:comp", "pubkey:uncomp"} THEN getPubKeyBytes(k, name)
    ELSE IF name \in KeyFormats THEN KeyFormat(k, name)
    ELSE IF name \in P2shFormats
         THEN <<169>> \o PushBytes(Hash160(KeyFormat(k, Lookup(name)))) \o <<135>>
    ELSE <<0>> \o PushBytes(SHA256(KeyFormat(k, Lookup(name))))

\* crypto.Signer.Sign: a DER signature, SEQUENCE header and body, whose length and
\* bytes are a function of the key and the digest
DerLen(k, d) == 70 + ((d[1] + k) % 2)

SignerSign(k, d) ==
    <<48, DerLen(k, d) - 2>> \o [i \in 1..(DerLen(k, d) - 2) |-> (d[((i - 1) % Len(d)) + 1] + 3 * k) % 256]

----------------------------------------------------------------------------
(* The transaction model, heap form.  A []byte field holds a reference     *)
(* into heap (0 for nil), so that two fields can share one backing array. *)
(* The first references are the package-level prefill buffers.             *)

prefillEmptySig == Zeros(72)

prefillEmptyCompKey == Zeros(33)

prefillEmptyUncompKey == Zeros(65)

prefillP2PK == PushBytes(prefillEmptySig)

prefillP2PKH == PushBytes(prefillEmptySig) \o PushBytes(prefillEmptyCompKey)

prefillP2PUKH == PushBytes(prefillEmptySig) \o PushBytes(prefillEmptyUncompKey)

\* the heap when the package is loaded
GlobalHeap ==
    <<prefillEmptySig, prefillEmptyCompKey, prefillP2PK, prefillP2PKH, prefillP2PUKH>>

\* the references of the package-level buffers
Global ==
    [prefillEmptySig |-> 1, prefillEmptyCompKey |-> 2, prefillP2PK |-> 3,
     prefillP2PKH |-> 4, prefillP2PUKH |-> 5]

\* prefillP2WPKH = [][]byte{prefillEmptySig, prefillEmptyCompKey}
prefillP2WPKH == <<Global.prefillEmptySig, Global.prefillEmptyCompKey>>

NGlobals == Len(GlobalHeap)

Deref(h, r) == IF r = 0 THEN <<>> ELSE h[r]

ViewInput(in, h) ==
    [in EXCEPT !.Script = Deref(h, in.Script),
               !.Witnesses = [k \in 1..Len(in.Witnesses) |-> Deref(h, in.Witnesses[k])]]

ViewOutput(out, h) == [out EXCEPT !.Script = Deref(h, out.Script)]

\* the value form of a heap-form transaction
View(t, h) ==
    [t EXCEPT !.In = [i \in 1..Len(t.In) |-> ViewInput(t.In[i], h)],
              !.Out = [o \in 1..Len(t.Out) |-> ViewOutput(t.Out[o], h)]]

\* a fresh backing array holding b (no array for no bytes)
AllocRef(h, b) == IF b = <<>> THEN 0 ELSE Len(h) + 1

AllocHeap(h, b) == IF b = <<>> THEN h ELSE Append(h, b)

\* slices.Clone of the script and of every witness item of one input
CloneRefs(h, bufs) ==
    [k \in 1..Len(bufs) |->
        IF bufs[k] = <<>> THEN 0
        ELSE Len(h) + Cardinality({j \in 1..k : bufs[j] # <<>>})]

InputBufs(in, h) ==
    <<Deref(h, in.Script)>> \o [k \in 1..Len(in.Witnesses) |-> Deref(h, in.Witnesses[k])]

NonEmpty(b) == b # <<>>

BtcTxInputDupWith(in, h, bufs, refs) ==
    [val |-> [in EXCEPT !.Script = refs[1],
                        !.Witnesses = [k \in 1..Len(in.Witnesses) |-> refs[k + 1]]],
     h   |-> h \o SelectSeq(bufs, NonEmpty)]

\* BtcTxInput.Dup
BtcTxInputDup(in, h) ==
    With(InputBufs(in, h), LAMBDA bufs : BtcTxInputDupWith(in, h, bufs, CloneRefs(h, bufs)))

\* BtcTxOutput.Dup: *res = *out copies the slice header, not the bytes
BtcTxOutputDup(out) == out

RECURSIVE DupInputs(_, _, _)
DupInputs(ins, h, acc) ==
    IF ins = <<>> THEN [ins |-> acc, h |-> h]
    ELSE With(BtcTxInputDup(Head(ins), h),
              LAMBDA d : DupInputs(Tail(ins), d.h, Append(acc, d.val)))

BtcTxDupWith(t, d) ==
    [t |-> [t EXCEPT !.In = d.ins,
                     !.Out = [o \in 1..Len(t.Out) |-> BtcTxOutputDup(t.Out[o])]],
     h |-> d.h]

\* BtcTx.Dup
BtcTxDup(t, h) == With(DupInputs(t.In, h, <<>>), LAMBDA d : BtcTxDupWith(t, d))

\* BtcTx.ClearInputs
ClearInputs(t) ==
    [t EXCEPT !.In = [i \in 1..Len(t.In) |->
                         [t.In[i] EXCEPT !.Script = 0, !.Witnesses = <<>>]]]

\* BtcTxInput.Prefill
Prefill(in, scheme) ==
    CASE scheme = "p2pk" -> [in |-> [in EXCEPT !.Script = Global.prefillP2PK], err |-> NoErr]
      [] scheme = "p2pkh" -> [in |-> [in EXCEPT !.Script = Global.prefillP2PKH], err |-> NoErr]
      [] scheme = "p2pukh" -> [in |-> [in EXCEPT !.Script = Global.prefillP2PUKH], err |-> NoErr]
      [] scheme = "p2wpkh" ->
             [in |-> [in EXCEPT !.Script = 0, !.Witnesses = prefillP2WPKH], err |-> NoErr]
      [] OTHER -> [in |-> in, err |-> "unsupported sign scheme"]

----------------------------------------------------------------------------
(* Signing (btctx.go Sign, p2wpkhSign, preimage).  A descriptor is         *)
(* [Key, Scheme, Amount, SigHash].  The state of one call is               *)
(* [t, h, wtx, pfx, err, signed, keys]: the transaction and the heap, the  *)
(* work copy, the cached preimage parts (<<>> for nil), the error, the     *)
(* messages handed to the signer so far and the descriptors as the call    *)
(* leaves them.                                                            *)

\* lines 78-80: the call goes on only with inputs and one descriptor for each
SignCountCheck_ZeroOnly(t, keys) == ~(Len(t.In) = 0)

SignCountCheck(t, keys) == ~(Len(t.In) = 0 \/ Len(t.In) # Len(keys))

\* lines 87-89: SigHash 0 becomes SIGHASH_ALL on the caller's descriptor
DefaultSigHash(k) == [k EXCEPT !.SigHash = IF k.SigHash = Zeros(4) THEN <<1, 0, 0, 0>> ELSE k.SigHash]

\* k.SigHash&0x40 == 0x40
HasForkId(k) == (k.SigHash[1] \div 64) % 2 = 1

\* Key.Sign over the double SHA-256 of msg, and the low byte of SigHash appended
SignatureWithSigHash(k, msg) ==
    With(Hash256(msg), LAMBDA d : SignerSign(k.Key, d) \o <<k.SigHash[1]>>)

\* BtcTxInput.preimageBytes
preimageBytes(in) == [a |-> Reverse(in.TXID) \o in.Vout, b |-> in.Sequence]

\* the preimage parts with the whole inputs, scripts included, under the first hash
preimageOf_WithScripts(t) ==
    [pfx |-> t.Version
             \o Hash256(Flatten([i \in 1..Len(t.In) |-> BtcTxInputBytes(t.In[i])]))
             \o Hash256(Flatten([i \in 1..Len(t.In) |-> preimageBytes(t.In[i]).b])),
     sfx |-> Hash256(Flatten([o \in 1..Len(t.Out) |-> BtcTxOutputBytes(t.Out[o])]))
             \o t.Locktime]

preimageOf(t) ==
    [pfx |-> t.Version
             \o Hash256(Flatten([i \in 1..Len(t.In) |-> preimageBytes(t.In[i]).a]))
             \o Hash256(Flatten([i \in 1..Len(t.In) |-> preimageBytes(t.In[i]).b])),
     sfx |-> Hash256(Flatten([o \in 1..Len(t.Out) |-> BtcTxOutputBytes(t.Out[o])]))
             \o t.Locktime]

\* BtcTx.preimage, on the value form
preimage(t) == With(t, LAMBDA v : preimageOf(v))

\* if pfx == nil { pfx, sfx = tx.preimage() }
WithPreimage(st) ==
    IF st.pfx = <<>> THEN [st EXCEPT !.pfx = <<preimage(View(st.t, st.h))>>] ELSE st

\* tx.In[n].Script = b
StoreScript(st, n, b) ==
    [st EXCEPT !.t.In[n].Script = AllocRef(st.h, b), !.h = AllocHeap(st.h, b)]

\* tx.In[n].Witnesses = [][]byte{items...}
StoreWitnesses(st, n, items) ==
    [st EXCEPT !.t.In[n].Witnesses = [j \in 1..Len(items) |-> Len(st.h) + j],
               !.h = st.h \o items]

Signed(st, msg) == [st EXCEPT !.signed = Append(st.signed, msg)]

\* p2wpkhSign, lines 193-205
p2wpkhSignStore(st, n, k, pubKey, pkHash, sign) ==
    CASE k.Scheme \in {"p2pkh", "p2pukh"} ->
             StoreScript(st, n, PushBytes(sign) \o PushBytes(pubKey))
      [] k.Scheme = "p2wpkh" ->
             With(StoreWitnesses(st, n, <<sign, pubKey>>),
                  LAMBDA s : StoreScript(s, n, <<>>))
      [] k.Scheme = "p2sh:p2wpkh" ->
             With(StoreWitnesses(st, n, <<sign, pubKey>>),
                  LAMBDA s : StoreScript(s, n, PushBytes(<<0>> \o PushBytes(pkHash))))
      [] OTHER -> st

\* p2wpkhSign, lines 178-185: the message handed to the signer
signString(st, k, in, pkHash) ==
    st.pfx[1].pfx \o preimageBytes(in).a
    \o PushBytes(<<118, 169>> \o PushBytes(pkHash) \o <<136, 172>>)
    \o k.Amount \o preimageBytes(in).b \o st.pfx[1].sfx \o k.SigHash

\* p2wpkhSign, lines 167-191, once the preimage parts are there
p2wpkhSignKey(st, n, k, pubKey) ==
    With(Hash160(pubKey), LAMBDA pkHash :
    With(signString(st, k, st.t.In[n], pkHash), LAMBDA msg :
    With(SignatureWithSigHash(k, msg), LAMBDA sign :
        p2wpkhSignStore(Signed(st, msg), n, k, pubKey, pkHash, sign))))

\* BtcTx.p2wpkhSign
p2wpkhSign(st, n, k) ==
    With(WithPreimage(st), LAMBDA s :
    With(Generate(k.Key, IF k.Scheme = "p2pukh" THEN "pubkey:uncomp" ELSE "pubkey:comp"),
         LAMBDA pubKey : p2wpkhSignKey(s, n, k, pubKey)))

\* the work copy without wtx.ClearInputs()
WorkCopy_NoClear(st, n, script) ==
    [t |-> [st.wtx EXCEPT !.In[n].Script = AllocRef(st.h, script)],
     h |-> AllocHeap(st.h, script)]

\* lines 96-97 and 122-123: wtx.ClearInputs(); wtx.In[n].Script = script
WorkCopy(st, n, script) ==
    [t |-> [ClearInputs(st.wtx) EXCEPT !.In[n].Script = AllocRef(st.h, script)],
     h |-> AllocHeap(st.h, script)]

\* lines 96-109 and 122-144: the message is the work copy in legacy format, then SigHash
SignLegacy(st, n, k, script, pub) ==
    With(WorkCopy(st, n, script), LAMBDA w :
    With(exportBytes(View(w.t, w.h), FALSE) \o k.SigHash, LAMBDA msg :
    With(PushBytes(SignatureWithSigHash(k, msg)) \o pub, LAMBDA b :
        StoreScript([Signed(st, msg) EXCEPT !.wtx = w.t, !.h = w.h], n, b))))

\* the body of the loop of Sign for input n (lines 94-156)
SignCase(st, n, k) ==
    CASE k.Scheme = "p2pk" -> SignLegacy(st, n, k, Generate(k.Key, "p2pk"), <<>>)
      [] k.Scheme \in {"p2pkh", "p2pukh"} ->
             IF HasForkId(k) THEN p2wpkhSign(st, n, k)
             ELSE SignLegacy(st, n, k, Generate(k.Key, k.Scheme),
                      PushBytes(Generate(k.Key, IF k.Scheme = "p2pkh" THEN "pubkey:comp"
                                                ELSE "pubkey:uncomp")))
      [] k.Scheme \in {"p2wpkh", "p2sh:p2wpkh"} -> p2wpkhSign(st, n, k)
      [] OTHER -> [st EXCEPT !.err = "unsupported sign scheme"]

\* one turn of the loop: tx.In[n] and wtx.In[n] of an index past the inputs panic
SignInput(st, n) ==
    IF n > Len(st.t.In) THEN [st EXCEPT !.err = "panic: index out of range"]
    ELSE With(DefaultSigHash(st.keys[n]),
              LAMBDA k : SignCase([st EXCEPT !.keys[n] = k], n, k))

RECURSIVE SignLoop(_, _)
SignLoop(st, n) ==
    IF n > Len(st.keys) \/ st.err # NoErr THEN st
    ELSE With(SignInput(st, n), LAMBDA s : SignLoop(s, n + 1))

\* wtx := tx.Dup()
SignStart(t, keys, d) ==
    [t |-> t, h |-> d.h, wtx |-> d.t, pfx |-> <<>>, err |-> NoErr, signed |-> <<>>,
     keys |-> keys]

\* BtcTx.Sign
Sign(t, h, keys) ==
    IF ~SignCountCheck(t, keys)
    THEN [SignStart(t, keys, [t |-> t, h |-> h])
             EXCEPT !.err = "Sign requires as many keys as there are inputs"]
    ELSE With(BtcTxDup(t, h), LAMBDA d :
         With(SignStart(t, keys, d), LAMBDA st : SignLoop(st, 1)))

----------------------------------------------------------------------------
(* Specification Spec: a transaction is built, copied with Dup, and both   *)
(* the transaction and its copy are prefilled, signed, cleared and         *)
(* written to by their owner.                                              *)

MaxIn == 2

MaxOps == 2

TxidOf(i) == [j \in 1..TxidLen |-> (j + 32 * i) % 256]

\* &BtcTx{Version: 2, In: n unsigned inputs, Out: one p2pkh output}
NewTx(n) ==
    [Version  |-> <<2, 0, 0, 0>>,
     In       |-> [i \in 1..n |->
                     [TXID |-> TxidOf(i), Vout |-> <<i - 1, 0, 0, 0>>, Script |-> 0,
                      Sequence |-> <<255, 255, 255, 255>>, Witnesses |-> <<>>]],
     Out      |-> <<[Amount |-> <<0, 225, 245, 5, 0, 0, 0, 0>>, N |-> 0,
                     Script |-> NGlobals + 1]>>,
     Locktime |-> Zeros(4)]

NewTxHeap == GlobalHeap \o <<Generate(1, "p2pkh")>>

\* the scheme names a caller passes: those of the documentation and one unknown name
SignSchemes ==
    {"p2pk", "p2pkh", "p2pukh", "p2wpkh", "p2sh:p2wpkh", "p2wsh", "p2wsh:p2pk",
     "p2wsh:p2puk", "p2wsh:p2pkh", "p2wsh:p2pukh", "unsupported"}

\* SigHash left at 0 (SIGHASH_ALL by default) or SIGHASH_ALL|SIGHASH_FORKID
SigHashes == {Zeros(4), <<65, 0, 0, 0>>}

Descriptor(i, scheme, sh) ==
    [Key |-> ((i - 1) % 2) + 1, Scheme |-> scheme,
     Amount |-> <<0, 70, 195, 35, 0, 0, 0, 0>>, SigHash |-> sh]

\* one descriptor per input: any scheme for the last input, a legacy or a segwit
\* scheme for the inputs before it
LeadSchemes == {"p2pk", "p2wpkh"}

MatchingKeys(n) ==
    {[i \in 1..n |-> Descriptor(i, IF i = n THEN s ELSE l, sh)] :
        s \in SignSchemes, l \in LeadSchemes, sh \in SigHashes}

\* fewer or more descriptors than inputs
MismatchedKeys(n) ==
    {[i \in 1..m |-> Descriptor(i, "p2pkh", Zeros(4))] : m \in (0..(n + 1)) \ {n}}

KeyPlans(n) == IF n = 0 THEN {<<>>} \cup MismatchedKeys(n) ELSE MatchingKeys(n) \cup MismatchedKeys(n)

Obj(who) == IF who = "tx" THEN tx ELSE cp[1]

Owners == IF cp = <<>> THEN {"tx"} ELSE {"tx", "cp"}

\* the references a transaction holds, in the order of its fields
Refs(t) ==
    Flatten([i \in 1..Len(t.In) |-> <<t.In[i].Script>> \o t.In[i].Witnesses])
    \o [o \in 1..Len(t.Out) |-> t.Out[o].Script]

RECURSIVE FirstUsesFrom(_, _, _)
FirstUsesFrom(s, i, acc) ==
    IF i > Len(s) THEN acc
    ELSE With(IF s[i] <= NGlobals \/ \E j \in 1..Len(acc) : acc[j] = s[i]
              THEN acc ELSE Append(acc, s[i]),
              LAMBDA a : FirstUsesFrom(s, i + 1, a))

FirstUses(refs) == With(refs, LAMBDA s : FirstUsesFrom(s, 1, <<>>))

\* buffers nothing refers to are collected and the others are numbered in the
\* order of their first use, so that a state does not depend on allocation order
Moved(r, ord) ==
    IF r <= NGlobals THEN r ELSE NGlobals + (CHOOSE j \in 1..Len(ord) : ord[j] = r)

MovedTx(t, ord) ==
    [t EXCEPT !.In = [i \in 1..Len(t.In) |->
                         [t.In[i] EXCEPT !.Script = Moved(t.In[i].Script, ord),
                                         !.Witnesses = [k \in 1..Len(t.In[i].Witnesses) |->
                                                           Moved(t.In[i].Witnesses[k], ord)]]],
              !.Out = [o \in 1..Len(t.Out) |->
                          [t.Out[o] EXCEPT !.Script = Moved(t.Out[o].Script, ord)]]]

StoreMoved(t, c, h, l, ord) ==
    /\ tx' = MovedTx(t, ord)
    /\ cp' = (IF c = <<>> THEN <<>> ELSE <<MovedTx(c[1], ord)>>)
    /\ heap' = SubSeq(h, 1, NGlobals) \o [j \in 1..Len(ord) |-> h[ord[j]]]
    /\ last' = l
    /\ UNCHANGED <<wire, dec, orig, scripts>>

Store(t, c, h, l) ==
    \E ord \in {FirstUses(Refs(t) \o (IF c = <<>> THEN <<>> ELSE Refs(c[1])))} :
        StoreMoved(t, c, h, l, ord)

\* the owner who keeps t as its transaction
StoreFor(who, t, h, l) ==
    IF who = "tx" THEN Store(t, cp, h, l) ELSE Store(tx, <<t>>, h, l)

\* what both transactions serialize to before the operation
Before ==
    [tx |-> View(tx, heap), cp |-> IF cp = <<>> THEN <<>> ELSE <<View(cp[1], heap)>>]

Log(op, who, arg, err, signed, keys, cost) ==
    [op |-> op, who |-> who, arg |-> arg, err |-> err, signed |-> signed, keys |-> keys,
     ops |-> last.ops + cost, pre |-> Before]

Init ==
    /\ tx \in {NewTx(n) : n \in 0..MaxIn}
    /\ cp = <<>>
    /\ heap = NewTxHeap
    /\ last = [op |-> "new", who |-> "tx", arg |-> <<>>, err |-> NoErr, signed |-> <<>>,
               keys |-> <<>>, ops |-> 0, pre |-> [tx |-> View(tx, heap), cp |-> <<>>]]
    /\ wire = <<>>
    /\ dec = NoDec
    /\ orig = <<>>
    /\ scripts = <<>>

DupStore(d) == Store(tx, <<d.t>>, d.h, Log("Dup", "tx", <<>>, NoErr, <<>>, <<>>, 0))

\* cp := tx.Dup()
Dup ==
    /\ cp = <<>>
    /\ \E d \in {BtcTxDup(tx, heap)} : DupStore(d)

PrefillStore(who, n, scheme, r) ==
    StoreFor(who, [Obj(who) EXCEPT !.In[n] = r.in], heap,
             Log("Prefill", who, <<n, scheme>>, r.err, <<>>, <<>>, 1))

\* err := who.In[n].Prefill(scheme)
PrefillInput(who, n, scheme) ==
    /\ last.ops < MaxOps
    /\ \E r \in {Prefill(Obj(who).In[n], scheme)} : PrefillStore(who, n, scheme, r)

SignStore(who, keys, r) ==
    StoreFor(who, r.t, r.h, Log("Sign", who, keys, r.err, r.signed, r.keys, 1))

\* err := who.Sign(keys...)
SignTx(who, keys) ==
    /\ last.ops < MaxOps
    /\ \E r \in {Sign(Obj(who), heap, keys)} : SignStore(who, keys, r)

\* who.ClearInputs()
ClearTxInputs(who) ==
    /\ last.ops < MaxOps
    /\ StoreFor(who, ClearInputs(Obj(who)), heap,
                Log("ClearInputs", who, <<>>, NoErr, <<>>, <<>>, 1))

\* b[0] = 0xff for a script or witness item b that who holds
WriteByte(who, r) ==
    /\ last.ops < MaxOps
    /\ StoreFor(who, Obj(who), [heap EXCEPT ![r] = <<255>> \o Tail(heap[r])],
                Log("WriteByte", who, <<r>>, NoErr, <<>>, <<>>, 1))

\* who.Locktime = 99
SetLocktime(who) ==
    /\ last.ops < MaxOps
    /\ StoreFor(who, [Obj(who) EXCEPT !.Locktime = <<99, 0, 0, 0>>], heap,
                Log("SetLocktime", who, <<>>, NoErr, <<>>, <<>>, 1))

HeldRefs(t) == {Refs(t)[j] : j \in 1..Len(Refs(t))} \ {0}

Next ==
    \/ Dup
    \/ \E who \in Owners : \E n \in 1..Len(Obj(who).In), scheme \in SignSchemes :
           PrefillInput(who, n, scheme)
    \/ \E who \in Owners : \E keys \in KeyPlans(Len(Obj(who).In)) : SignTx(who, keys)
    \/ \E who \in Owners : ClearTxInputs(who)
    \/ \E who \in Owners : \E r \in HeldRefs(Obj(who)) : WriteByte(who, r)
    \/ \E who \in Owners : SetLocktime(who)

Spec == Init /\ [][Next]_vars

----------------------------------------------------------------------------
(* Properties of Spec                                                      *)

ObjView(who) == View(Obj(who), heap)

\* the owner's transaction before the last operation
PreOf(who) == IF who = "tx" THEN last.pre.tx ELSE last.pre.cp[1]

\* inputs and outputs as both wire formats lay them out
C2_Core(t) ==
    BtcVarIntBytes(Len(t.In))
    \o Flatten([i \in 1..Len(t.In) |-> BtcTxInputBytes(t.In[i])])
    \o BtcVarIntBytes(Len(t.Out))
    \o Flatten([o \in 1..Len(t.Out) |-> BtcTxOutputBytes(t.Out[o])])

\* one witness stack per input
C2_WitnessSection(t) == Flatten([i \in 1..Len(t.In) |-> WitnessBytes(t.In[i])])

C2_Format(t, b) ==
    IF \E i \in 1..Len(t.In) : t.In[i].Witnesses # <<>>
    THEN b = t.Version \o <<0, 1>> \o C2_Core(t) \o C2_WitnessSection(t) \o t.Locktime
    ELSE b = t.Version \o C2_Core(t) \o t.Locktime

C2_FormatOf(t) == With(Bytes(t), LAMBDA b : C2_Format(t, b))

\* C2: in every reachable state, Bytes() of the transaction and of its copy is the
\* witness format (marker 0, flag 1 after the version, one witness stack per input
\* before the locktime) if and only if some input has a non-empty witness stack,
\* and the legacy format without marker, flag and witness section otherwise.
C2_WitnessFormatIff ==
    \A who \in Owners : With(ObjView(who), LAMBDA t : C2_FormatOf(t))

\* a signed transaction whose second input alone carries a witness
C2_Witness ==
    /\ last.op = "Sign" /\ last.who = "tx" /\ last.err = NoErr
    /\ Len(tx.In) = 2
    /\ tx.In[1].Witnesses = <<>> /\ tx.In[1].Script # 0
    /\ Len(tx.In[2].Witnesses) = 2
    /\ SubSeq(Bytes(ObjView("tx")), 5, 6) = <<0, 1>>

C3_Expected(k, sig, in) ==
    CASE k.Scheme = "p2pk" ->
             in.Script = PushBytes(sig) /\ in.Witnesses = <<>>
      [] k.Scheme = "p2pkh" ->
             /\ in.Script = PushBytes(sig) \o PushBytes(SerializeCompressed(k.Key))
             /\ in.Witnesses = <<>>
      [] k.Scheme = "p2pukh" ->
             /\ in.Script = PushBytes(sig) \o PushBytes(SerializeUncompressed(k.Key))
             /\ in.Witnesses = <<>>
      [] k.Scheme = "p2wpkh" ->
             /\ in.Script = <<>>
             /\ in.Witnesses = <<sig, SerializeCompressed(k.Key)>>
      [] k.Scheme = "p2sh:p2wpkh" ->
             /\ in.Script = PushBytes(<<0>> \o PushBytes(Hash160(SerializeCompressed(k.Key))))
             /\ in.Witnesses = <<sig, SerializeCompressed(k.Key)>>
      [] OTHER -> TRUE

C3_InputOk(t, n) ==
    C3_Expected(last.keys[n], SignatureWithSigHash(last.keys[n], last.signed[n]), t.In[n])

\* C3: after a successful Sign, whatever the inputs held before, input n ends with the
\* script and the witness stack of its scheme: p2pk push(sig), no witness; p2pkh and
\* p2pukh push(sig) push(pubkey), no witness; p2wpkh no script, witness [sig, pubkey];
\* p2sh:p2wpkh push(0 push(HASH160(pubkey))), witness [sig, pubkey].
C3_SignResult ==
    (last.op = "Sign" /\ last.err = NoErr) =>
        With(ObjView(last.who), LAMBDA t : \A n \in 1..Len(last.keys) : C3_InputOk(t, n))

DocumentedSchemes == SignSchemes \ {"unsupported"}

P2wshInner(scheme) ==
    CASE scheme = "p2wsh:p2pkh" -> "p2pkh"
      [] scheme = "p2wsh:p2pukh" -> "p2pukh"
      [] scheme = "p2wsh:p2pk" -> "p2pk"
      [] scheme = "p2wsh:p2puk" -> "p2puk"

\* the inner type the bare scheme p2wsh stands for, given the script the input held
C4_Detected(k, script) ==
    IF \E x \in {"p2wsh:p2pkh", "p2wsh:p2pukh", "p2wsh:p2pk", "p2wsh:p2puk"} :
           Generate(k.Key, x) = script
    THEN P2wshInner(CHOOSE x \in {"p2wsh:p2pkh", "p2wsh:p2pukh", "p2wsh:p2pk", "p2wsh:p2puk"} :
                        Generate(k.Key, x) = script)
    ELSE "p2pkh"

C4_ExpectedInner(k, inner, in) ==
    /\ in.Script = <<>>
    /\ Len(in.Witnesses) = (IF inner \in {"p2pkh", "p2pukh"} THEN 3 ELSE 2)
    /\ in.Witnesses[1] # <<>>
    /\ in.Witnesses[1][Len(in.Witnesses[1])] = k.SigHash[1]
    /\ inner \in {"p2pkh", "p2pukh"} =>
           in.Witnesses[2] = Generate(k.Key, IF inner = "p2pkh" THEN "pubkey:comp"
                                             ELSE "pubkey:uncomp")
    /\ in.Witnesses[Len(in.Witnesses)] = Generate(k.Key, inner)

C4_Expected(k, before, in) ==
    IF k.Scheme = "p2wsh" THEN C4_ExpectedInner(k, C4_Detected(k, before.Script), in)
    ELSE IF k.Scheme \in {"p2wsh:p2pkh", "p2wsh:p2pukh", "p2wsh:p2pk", "p2wsh:p2puk"}
         THEN C4_ExpectedInner(k, P2wshInner(k.Scheme), in)
    ELSE TRUE

\* C4: Sign with one descriptor per input, all of documented schemes, the p2wsh ones
\* among them, succeeds; an input signed with p2wsh:p2pkh or p2wsh:p2pukh ends with no
\* script and the witness [sig, pubkey, witnessScript], one signed with p2wsh:p2pk or
\* p2wsh:p2puk with [sig, witnessScript], and the bare scheme p2wsh stands for the
\* inner type whose p2wsh script the input held, p2pkh when it held none.
C4_SignAcceptsP2wsh ==
    (/\ last.op = "Sign"
     /\ Len(last.arg) = Len(PreOf(last.who).In) /\ Len(last.arg) > 0
     /\ \A n \in 1..Len(last.arg) : last.arg[n].Scheme \in DocumentedSchemes)
    => /\ last.err = NoErr
       /\ \A n \in 1..Len(last.keys) :
              C4_Expected(last.keys[n], PreOf(last.who).In[n], ObjView(last.who).In[n])

\* C5: Sign on a transaction without inputs, or with a number of descriptors other
\* than the number of inputs, returns an error, hands nothing to the signer and
\* leaves the script and the witness stack of every input as they were.
C5_SignCountMismatch ==
    (last.op = "Sign"
     /\ (Len(PreOf(last.who).In) = 0 \/ Len(last.arg) # Len(PreOf(last.who).In)))
    => /\ last.err # NoErr
       /\ last.signed = <<>>
       /\ ObjView(last.who).In = PreOf(last.who).In

\* Sign with one descriptor for two inputs, the second of them prefilled
C5_Witness ==
    /\ last.op = "Sign" /\ last.who = "tx"
    /\ Len(last.arg) = 1
    /\ Len(last.pre.tx.In) = 2
    /\ Len(last.pre.tx.In[2].Witnesses) = 2
    /\ last.err # NoErr
    /\ ObjView("tx").In = last.pre.tx.In

Other(who) == IF who = "tx" THEN "cp" ELSE "tx"

\* input b is input a of the same base transaction, prefilled for the scheme
C6_PrefilledFor(b, a, scheme) ==
    /\ b.TXID = a.TXID /\ b.Vout = a.Vout /\ b.Sequence = a.Sequence
    /\ Prefill(EmptyInput, scheme).err = NoErr
    /\ b.Script = Deref(GlobalHeap, Prefill(EmptyInput, scheme).in.Script)
    /\ Len(b.Witnesses) = Len(Prefill(EmptyInput, scheme).in.Witnesses)
    /\ \A j \in 1..Len(b.Witnesses) :
           b.Witnesses[j] = Deref(GlobalHeap, Prefill(EmptyInput, scheme).in.Witnesses[j])

C6_SizeCovers(signed, prefilled) ==
    (/\ Len(prefilled.In) = Len(signed.In)
     /\ prefilled.Out = signed.Out
     /\ \A n \in 1..Len(signed.In) :
            C6_PrefilledFor(prefilled.In[n], signed.In[n], last.keys[n].Scheme))
    => ComputeSize(prefilled) >= ComputeSize(signed)

\* C6: Prefill succeeds for every documented scheme, and when one of the two
\* transactions was signed while the other, of the same base, holds the prefill of
\* the same schemes, ComputeSize() of the prefilled one is at least that of the
\* signed one.
C6_PrefillCoversSign ==
    /\ (last.op = "Prefill" /\ last.arg[2] \in DocumentedSchemes) => last.err = NoErr
    /\ (last.op = "Sign" /\ last.err = NoErr /\ cp # <<>>) =>
           C6_SizeCovers(ObjView(last.who), ObjView(Other(last.who)))

Mutators == {"Prefill", "Sign", "ClearInputs", "WriteByte", "SetLocktime"}

\* C7: the copy Dup returns serializes as the original, and after that no operation
\* on the copy changes Bytes() of the original, nor one on the original Bytes() of
\* the copy.
C7_DupIsDeepCopy ==
    /\ last.op = "Dup" => Bytes(ObjView("cp")) = Bytes(ObjView("tx"))
    /\ (last.op \in Mutators /\ last.pre.cp # <<>>) =>
           Bytes(ObjView(Other(last.who))) = Bytes(PreOf(Other(last.who)))

----------------------------------------------------------------------------
(* Addresses.  The text codecs (base58, bech32 and cashaddr) belong to     *)
(* other modules; an address string is modelled by what its codec carries: *)
(* the encoding it is written in, its human-readable part or prefix, its   *)
(* type and its bytes.  A string of one encoding is not decodable as       *)
(* another.  The Base58Check checksum is computed by the package itself    *)
(* and is part of the bytes.                                               *)

\* hex.EncodeToString: two digits per byte
Hex(b) ==
    [i \in 1..(2 * Len(b)) |-> IF i % 2 = 1 THEN b[(i + 1) \div 2] \div 16 ELSE b[i \div 2] % 16]

makeOut(name, script, flags) ==
    [Name |-> name, Script |-> Hex(script), Flags |-> flags, raw |-> script]

NoOut == makeOut("", <<>>, <<>>)

pushBytes(v) == PushBytes(v)

\* what parsePushBytes returns: the pushed data or nil, or an index out of range
Pushed(data) == [data |-> data, nil |-> FALSE, panic |-> FALSE]

PushedNil == [data |-> <<>>, nil |-> TRUE, panic |-> FALSE]

PushedPanic == [data |-> <<>>, nil |-> TRUE, panic |-> TRUE]

\* return v[:l] when len(v) >= l
pushedPrefix(v, l) == IF Len(v) >= l THEN Pushed(SubSeq(v, 1, l)) ELSE PushedNil

parsePushBytes(v) ==
    IF Len(v) = 0 THEN PushedNil
    ELSE IF v[1] <= 75 THEN pushedPrefix(Tail(v), v[1])
    ELSE IF v[1] = 76
         THEN IF Len(v) < 2 THEN PushedPanic ELSE pushedPrefix(SubSeq(v, 3, Len(v)), v[2])
    ELSE IF v[1] = 77
         THEN IF Len(v) < 3 THEN PushedPanic
              ELSE pushedPrefix(SubSeq(v, 4, Len(v)), LEValue(SubSeq(v, 2, 3)))
    ELSE IF v[1] = 78
         THEN IF Len(v) < 5 THEN PushedPanic
              ELSE IF ~IsSmall(SubSeq(v, 2, 5)) THEN PushedNil
              ELSE pushedPrefix(SubSeq(v, 6, Len(v)), LEValue(SubSeq(v, 2, 5)))
    ELSE PushedNil

\* the networks the package documents
Networks ==
    {"bitcoin", "bitcoin-cash", "litecoin", "dogecoin", "namecoin", "monacoin",
     "electraproto", "dash", "bitcoin-testnet"}

\* address strings
Base58Addr(bytes) == [enc |-> "base58", hrp |-> "", typ |-> 0, data |-> bytes]

SegwitAddr(hrp, typ, prog) == [enc |-> "segwit", hrp |-> hrp, typ |-> typ, data |-> prog]

CashAddr(prefix, typ, hash) == [enc |-> "cashaddr", hrp |-> prefix, typ |-> typ, data |-> hash]

NoAddr == [enc |-> "", hrp |-> "", typ |-> 0, data |-> <<>>]

\* what Out.Address returns
Addressed(a) == [addr |-> a, err |-> NoErr, panic |-> FALSE]

AddressErr(e) == [addr |-> NoAddr, err |-> e, panic |-> FALSE]

AddressPanic == [addr |-> NoAddr, err |-> NoErr, panic |-> TRUE]

\* bech32m.SegwitAddrEncode: a version 0 program is 20 or 32 bytes long
SegwitAddrEncode(hrp, typ, prog) ==
    IF typ = 0 /\ Len(prog) \notin {20, 32} THEN AddressErr("invalid segwit program length")
    ELSE Addressed(SegwitAddr(hrp, typ, prog))

\* bech32m.CashAddrEncode: the string carries its prefix
CashAddrEncode(prefix, typ, hash) ==
    IF Len(hash) \notin {20, 32} THEN AddressErr("invalid cashaddr hash length")
    ELSE Addressed(CashAddr(prefix, typ, hash))

\* version, payload and the first four bytes of the double SHA-256 of both
encodeBase58addr(vers, buf) ==
    Base58Addr(<<vers>> \o buf \o SubSeq(Hash256(<<vers>> \o buf), 1, 4))

\* Out.baseName: the name up to its first colon
baseName(name) ==
    IF name \in P2shFormats THEN "p2sh"
    ELSE IF name \in P2wshFormats THEN "p2wsh"
    ELSE name

\* case "p2pkh", "p2pukh", once the pushed hash is read
addressP2pkh(net, buf) ==
    CASE net \in {"bitcoin-cash", "bitcoincash"} -> CashAddrEncode("bitcoincash:", 0, buf)
      [] net = "litecoin" -> Addressed(encodeBase58addr(48, buf))
      [] net = "dogecoin" -> Addressed(encodeBase58addr(30, buf))
      [] net = "monacoin" -> Addressed(encodeBase58addr(50, buf))
      [] net = "electraproto" -> Addressed(encodeBase58addr(55, buf))
      [] OTHER -> Addressed(encodeBase58addr(0, buf))

\* case "p2sh", once the pushed hash is read
addressP2sh(net, buf) ==
    CASE net \in {"bitcoin-cash", "bitcoincash"} -> CashAddrEncode("bitcoincash:", 1, buf)
      [] net = "litecoin" -> Addressed(encodeBase58addr(50, buf))
      [] net = "dogecoin" -> Addressed(encodeBase58addr(22, buf))
      [] net = "monacoin" -> Addressed(encodeBase58addr(55, buf))
      [] net = "electraproto" -> Addressed(encodeBase58addr(137, buf))
      [] OTHER -> Addressed(encodeBase58addr(5, buf))

\* case "p2wpkh", "p2wsh": a network without a human-readable part leaves the switch
addressSegwit(name, net, buf) ==
    CASE net = "litecoin" -> SegwitAddrEncode("ltc", 0, buf)
      [] net = "bitcoin" -> SegwitAddrEncode("bc", 0, buf)
      [] net = "monacoin" -> SegwitAddrEncode("mona", 0, buf)
      [] net = "electraproto" -> SegwitAddrEncode("ep", 0, buf)
      [] OTHER -> AddressErr("could not transform outscript of format")

\* the hash a script pushes between lead and trail bytes
pushedHash(raw, lead, trail) ==
    IF Len(raw) < lead + trail THEN PushedPanic
    ELSE parsePushBytes(SubSeq(raw, lead + 1, Len(raw) - trail))

\* if buf == nil { return "", errors.New(...) }, then switch net
addressHashed(base, net, p) ==
    IF p.panic THEN AddressPanic
    ELSE IF p.nil THEN AddressErr("invalid script for address type")
    ELSE IF base = "p2sh" THEN addressP2sh(net, p.data)
    ELSE addressP2pkh(net, p.data)

\* out.Address(flags...)
OutAddressFor(out, net) ==
    CASE baseName(out.Name) \in {"p2pkh", "p2pukh"} ->
             With(pushedHash(out.raw, 2, 2), LAMBDA p : addressHashed("p2pkh", net, p))
      [] baseName(out.Name) = "p2sh" ->
             With(pushedHash(out.raw, 1, 1), LAMBDA p : addressHashed("p2sh", net, p))
      [] baseName(out.Name) \in {"p2wpkh", "p2wsh"} ->
             With(pushedHash(out.raw, 1, 0),
                  LAMBDA p : IF p.panic THEN AddressPanic
                             ELSE addressSegwit(out.Name, net, p.data))
      [] OTHER -> AddressErr("could not transform outscript of format")

OutAddress(out, flags) ==
    OutAddressFor(out, IF Len(flags \o out.Flags) > 0 THEN (flags \o out.Flags)[1] ELSE "")

\* what ParseBitcoinBasedAddress returns
Parsed(out) == [out |-> out, err |-> NoErr, panic |-> FALSE]

ParseErr(e) == [out |-> NoOut, err |-> e, panic |-> FALSE]

ParsePanic == [out |-> NoOut, err |-> NoErr, panic |-> TRUE]

NoParse == Parsed(NoOut)

p2pkhOut(buf, flags) == makeOut("p2pkh", <<118, 169>> \o pushBytes(buf) \o <<136, 172>>, flags)

p2shOut(buf, flags) == makeOut("p2sh", <<169>> \o pushBytes(buf) \o <<135>>, flags)

\* a cashaddr string, with its prefix or with the prefix put back
parseCashAddr(a) ==
    CASE a.typ = 0 -> Parsed(p2pkhOut(a.data, <<"bitcoin-cash">>))
      [] a.typ = 1 -> Parsed(p2shOut(a.data, <<"bitcoin-cash">>))
      [] OTHER -> ParseErr("unsupported bitcoincash address type")

\* the network of a human-readable part
segwitNet(hrp) ==
    CASE hrp = "ltc" -> "litecoin"
      [] hrp = "bc" -> "bitcoin"
      [] hrp = "mona" -> "monacoin"
      [] hrp = "ep" -> "electraproto"
      [] OTHER -> ""

\* parseSegwit without the comparison of the address's network with the one asked for
parseSegwit_AnyNetwork(network, a) ==
    IF segwitNet(a.hrp) = "" THEN ParseErr("unsupported hrp value")
    ELSE IF a.typ # 0 THEN ParseErr("unsupported segwit type")
    ELSE IF Len(a.data) = 20
         THEN Parsed(makeOut("p2wpkh", <<0>> \o pushBytes(a.data), <<segwitNet(a.hrp)>>))
    ELSE IF Len(a.data) = 32
         THEN Parsed(makeOut("p2wsh", <<0>> \o pushBytes(a.data), <<segwitNet(a.hrp)>>))
    ELSE ParseErr("invalid segwit address length")

\* a string bech32m.SegwitAddrDecode accepts
parseSegwit(network, a) ==
    IF segwitNet(a.hrp) = "" THEN ParseErr("unsupported hrp value")
    ELSE IF segwitNet(a.hrp) # network /\ network # "auto"
         THEN ParseErr("got an address of another network")
    ELSE IF a.typ # 0 THEN ParseErr("unsupported segwit type")
    ELSE IF Len(a.data) = 20
         THEN Parsed(makeOut("p2wpkh", <<0>> \o pushBytes(a.data), <<segwitNet(a.hrp)>>))
    ELSE IF Len(a.data) = 32
         THEN Parsed(makeOut("p2wsh", <<0>> \o pushBytes(a.data), <<segwitNet(a.hrp)>>))
    ELSE ParseErr("invalid segwit address length")

\* the last two strategies: a cashaddr string without its prefix, else an error
parseFallback(network, a) ==
    IF network \in {"auto", "bitcoin-cash"} /\ a.enc = "cashaddr" /\ a.hrp = ""
    THEN parseCashAddr(a)
    ELSE ParseErr("unsupported address")

\* case "auto" with 0x32 taken for monacoin's p2pkh and 0x37 for electraproto's
parseAuto_OtherPreference(buf) ==
    IF Len(buf) = 0 THEN ParsePanic
    ELSE CASE buf[1] = 0 -> Parsed(p2pkhOut(Tail(buf), <<"bitcoin", "bitcoin-cash">>))
             [] buf[1] = 5 -> Parsed(p2shOut(Tail(buf), <<"bitcoin", "bitcoin-cash">>))
             [] buf[1] = 22 -> Parsed(p2shOut(Tail(buf), <<"dogecoin">>))
             [] buf[1] = 30 -> Parsed(p2pkhOut(Tail(buf), <<"dogecoin">>))
             [] buf[1] = 48 -> Parsed(p2pkhOut(Tail(buf), <<"litecoin">>))
             [] buf[1] = 50 -> Parsed(p2pkhOut(Tail(buf), <<"monacoin">>))
             [] buf[1] = 55 -> Parsed(p2pkhOut(Tail(buf), <<"electraproto">>))
             [] buf[1] = 137 -> Parsed(p2shOut(Tail(buf), <<"electraproto">>))
             [] OTHER -> ParseErr("unsupported base58 address version")

\* case "auto": switch buf[0]
parseAuto(buf) ==
    IF Len(buf) = 0 THEN ParsePanic
    ELSE CASE buf[1] = 0 -> Parsed(p2pkhOut(Tail(buf), <<"bitcoin", "bitcoin-cash">>))
             [] buf[1] = 5 -> Parsed(p2shOut(Tail(buf), <<"bitcoin", "bitcoin-cash">>))
             [] buf[1] = 22 -> Parsed(p2shOut(Tail(buf), <<"dogecoin">>))
             [] buf[1] = 30 -> Parsed(p2pkhOut(Tail(buf), <<"dogecoin">>))
             [] buf[1] = 48 -> Parsed(p2pkhOut(Tail(buf), <<"litecoin">>))
             [] buf[1] = 50 -> Parsed(p2shOut(Tail(buf), <<"litecoin">>))
             [] buf[1] = 55 -> Parsed(p2shOut(Tail(buf), <<"monacoin">>))
             [] buf[1] = 137 -> Parsed(p2shOut(Tail(buf), <<"electraproto">>))
             [] OTHER -> ParseErr("unsupported base58 address version")

\* switch network, switch buf[0], on the bytes before a good checksum
parseVersion(network, a, buf) ==
    CASE network = "auto" -> parseAuto(buf)
      [] network \in {"bitcoin", "bitcoin-cash"} ->
             (IF Len(buf) = 0 THEN ParsePanic
              ELSE CASE buf[1] = 0 -> Parsed(p2pkhOut(Tail(buf), <<network>>))
                     [] buf[1] = 5 -> Parsed(p2shOut(Tail(buf), <<network>>))
                     [] OTHER -> ParseErr("unsupported base58 address version"))
      [] network = "litecoin" ->
             (IF Len(buf) = 0 THEN ParsePanic
              ELSE CASE buf[1] = 48 -> Parsed(p2pkhOut(Tail(buf), <<"litecoin">>))
                     [] buf[1] = 50 -> Parsed(p2shOut(Tail(buf), <<"litecoin">>))
                     [] OTHER -> ParseErr("unsupported base58 address version"))
      [] network = "dogecoin" ->
             (IF Len(buf) = 0 THEN ParsePanic
              ELSE CASE buf[1] = 22 -> Parsed(p2shOut(Tail(buf), <<"dogecoin">>))
                     [] buf[1] = 30 -> Parsed(p2pkhOut(Tail(buf), <<"dogecoin">>))
                     [] OTHER -> parseFallback(network, a))
      [] network = "monacoin" ->
             (IF Len(buf) = 0 THEN ParsePanic
              ELSE CASE buf[1] = 50 -> Parsed(p2pkhOut(Tail(buf), <<"monacoin">>))
                     [] buf[1] = 55 -> Parsed(p2shOut(Tail(buf), <<"monacoin">>))
                     [] OTHER -> parseFallback(network, a))
      [] network = "electraproto" ->
             (IF Len(buf) = 0 THEN ParsePanic
              ELSE CASE buf[1] = 55 -> Parsed(p2pkhOut(Tail(buf), <<"electraproto">>))
                     [] buf[1] = 137 -> Parsed(p2shOut(Tail(buf), <<"electraproto">>))
                     [] OTHER -> parseFallback(network, a))
      [] OTHER -> ParseErr("unsupported network for address parsing")

\* the bytes base58.Bitcoin.Decode returned: checksum, then version
parseBase58(network, a) ==
    IF Len(a.data) < 4 THEN ParsePanic
    ELSE IF SubSeq(Hash256(SubSeq(a.data, 1, Len(a.data) - 4)), 1, 4)
            # SubSeq(a.data, Len(a.data) - 3, Len(a.data))
         THEN parseFallback(network, a)
    ELSE parseVersion(network, a, SubSeq(a.data, 1, Len(a.data) - 4))

ParseBitcoinBasedAddress(network, a) ==
    IF a.enc = "cashaddr" /\ a.hrp = "bitcoincash:"
    THEN IF network # "bitcoin-cash" /\ network # "auto"
         THEN ParseErr("bitcoincash address provided while expecting another")
         ELSE parseCashAddr(a)
    ELSE IF a.enc = "segwit" THEN parseSegwit(network, a)
    ELSE IF a.enc = "base58" THEN parseBase58(network, a)
    ELSE parseFallback(network, a)

----------------------------------------------------------------------------
(* Specification SpecAddr: an Out is generated from a key, its address is  *)
(* taken for a network and the address is parsed back.  orig holds the     *)
(* Out, wire the address and dec what the parser returned.                 *)

AddrFormats == KeyFormats \cup P2shFormats \cup P2wshFormats

\* a network name the package has never heard of
UnknownNetwork == "unsupported-net"

HintNetworks == Networks \cup {UnknownNetwork}

ParseNetworks == Networks \cup {"auto", UnknownNetwork}

\* New(key).Out(name)
ScriptOut(k, name) == makeOut(name, Generate(k, name), <<>>)

\* the hashes inside the addresses of third parties
ForeignHash20 == Hash160(SerializeCompressed(1))

ForeignHash32 == SHA256(SerializeCompressed(1))

\* version bytes: the eight the parser knows, namecoin's, dash's, testnet's and 0xff
ForeignVersions == {0, 5, 22, 30, 48, 50, 55, 137, 52, 76, 111, 255}

\* Base58 strings: checksummed addresses, one with a wrong checksum, strings of fewer
\* than four bytes ("1", "11", "111") and the checksum of no bytes at all
ForeignBase58 ==
    {encodeBase58addr(v, ForeignHash20) : v \in ForeignVersions}
    \cup {Base58Addr(<<0>> \o ForeignHash20 \o <<1, 2, 3, 4>>)}
    \cup {Base58Addr(Zeros(n)) : n \in 1..3}
    \cup {Base58Addr(SubSeq(Hash256(<<>>), 1, 4))}

\* segwit strings: version 0 of both lengths and version 1 (taproot)
ForeignSegwit ==
    {SegwitAddr(hrp, 0, ForeignHash20) : hrp \in {"bc", "ltc", "mona", "ep", "tb"}}
    \cup {SegwitAddr(hrp, 0, ForeignHash32) : hrp \in {"bc", "ltc", "mona", "ep", "tb"}}
    \cup {SegwitAddr(hrp, 1, ForeignHash32) : hrp \in {"bc", "ltc", "mona", "ep", "tb"}}

ForeignCashAddr ==
    {CashAddr(prefix, typ, ForeignHash20) : prefix \in {"bitcoincash:", ""}, typ \in {0, 1, 2}}

\* a string no codec decodes ("not-an-address!!!")
TextAddr == [enc |-> "text", hrp |-> "", typ |-> 0, data |-> <<>>]

ForeignAddrs == ForeignBase58 \cup ForeignSegwit \cup ForeignCashAddr \cup {TextAddr}

AddrLog(op, net, network, r, back) ==
    [op |-> op, net |-> net, network |-> network, err |-> r.err, panic |-> r.panic,
     back |-> back]

\* either an Out is generated from a key, or there is none and an address will arrive
AddrInit ==
    /\ BuilderIdle
    /\ orig \in {<<ScriptOut(k, name)>> : k \in Keys, name \in AddrFormats} \cup {<<>>}
    /\ wire = NoAddr
    /\ dec = NoParse
    /\ last = AddrLog("new", "", "", NoParse, NoAddr)

AddressStore(net, r) ==
    /\ wire' = r.addr
    /\ last' = AddrLog("Address", net, "", r, NoAddr)

\* addr, err := out.Address(net)
AddressFor(net) ==
    /\ last.op = "new"
    /\ orig # <<>>
    /\ \E r \in {OutAddress(orig[1], <<net>>)} : AddressStore(net, r)
    /\ UNCHANGED <<tx, cp, heap, dec, orig, scripts>>

\* an address string arrives from a third party
Receive(a) ==
    /\ last.op = "new"
    /\ orig = <<>>
    /\ wire' = a
    /\ last' = AddrLog("Receive", "", "", NoParse, NoAddr)
    /\ UNCHANGED <<tx, cp, heap, dec, orig, scripts>>

ParseStore(network, r) ==
    /\ dec' = r
    /\ last' = AddrLog("Parse", last.net, network, r, NoAddr)

\* out, err := ParseBitcoinBasedAddress(network, addr)
ParseAddress(network) ==
    /\ last.op \in {"Address", "Receive"}
    /\ last.err = NoErr
    /\ ~last.panic
    /\ \E r \in {ParseBitcoinBasedAddress(network, wire)} : ParseStore(network, r)
    /\ UNCHANGED <<tx, cp, heap, wire, orig, scripts>>

\* b, err := out.Address(), on the Out the parser returned
AddressBack ==
    /\ last.op = "Parse"
    /\ last.err = NoErr
    /\ ~last.panic
    /\ \E r \in {OutAddress(dec.out, <<>>)} :
           last' = AddrLog("AddressBack", last.net, last.network, r, r.addr)
    /\ UNCHANGED <<tx, cp, heap, wire, dec, orig, scripts>>

AddrNext ==
    \/ \E net \in HintNetworks : AddressFor(net)
    \/ \E a \in ForeignAddrs : Receive(a)
    \/ \E network \in ParseNetworks : ParseAddress(network)
    \/ AddressBack

SpecAddr == AddrInit /\ [][AddrNext]_vars

\* the formats that have an address form
C9_HasAddressForm(name) ==
    name \in {"p2pkh", "p2pukh", "p2wpkh"} \cup P2shFormats \cup P2wshFormats

\* C9: for every format with an address form and every documented network N, when
\* Address(N) returned an address, ParseBitcoinBasedAddress(N, address) succeeds and
\* returns an Out with the script of the Out the address was taken from.
C9_AddressRoundTrip ==
    (/\ last.op = "Parse"
     /\ last.net \in Networks
     /\ last.network = last.net
     /\ C9_HasAddressForm(orig[1].Name))
    => (/\ ~dec.panic
        /\ dec.err = NoErr
        /\ dec.out.Script = orig[1].Script)

\* C11: ParseBitcoinBasedAddress returns an Out or an error and never panics, for
\* every string and every network name, strings whose Base58 decoding has fewer
\* than five bytes included.
C11_ParseNeverPanics == last.op = "Parse" => ~dec.panic

\* the Base58Check version bytes of a network, p2pkh and p2sh
NetworkVersions(net) ==
    CASE net \in {"bitcoin", "bitcoin-cash"} -> {0, 5}
      [] net = "litecoin" -> {48, 50}
      [] net = "dogecoin" -> {30, 22}
      [] net = "monacoin" -> {50, 55}
      [] net = "electraproto" -> {55, 137}
      [] OTHER -> {}

\* the address is written with the version byte or the prefix of the network
C12_EncodedFor(a, net) ==
    CASE a.enc = "base58" -> a.data[1] \in NetworkVersions(net)
      [] a.enc = "segwit" -> segwitNet(a.hrp) = net
      [] a.enc = "cashaddr" -> net \in {"bitcoin-cash", "bitcoincash"}
      [] OTHER -> FALSE

\* the first explicit hint, else the first stored flag of the Out
C12_Selected == IF last.op = "Address" THEN last.net ELSE dec.out.Flags[1]

C12_Returned == IF last.op = "Address" THEN wire ELSE last.back

\* C12: an address Out.Address returns is encoded with the version byte or the
\* prefix of the selected network; a format without an encoding for that network
\* gets an error.
C12_AddressOfSelectedNetwork ==
    (last.op \in {"Address", "AddressBack"} /\ last.err = NoErr /\ ~last.panic)
    => C12_EncodedFor(C12_Returned, C12_Selected)

\* a Base58Check string: a version byte, a payload and the checksum of both
IsBase58Check(a) ==
    /\ a.enc = "base58"
    /\ Len(a.data) >= 5
    /\ SubSeq(a.data, Len(a.data) - 3, Len(a.data))
           = SubSeq(Hash256(SubSeq(a.data, 1, Len(a.data) - 4)), 1, 4)

C13_WellFormed(a) == a.enc \in {"segwit", "cashaddr"} \/ IsBase58Check(a)

\* the address is one of another network than N
C13_OtherNetwork(a, N) ==
    \/ a.enc = "cashaddr" /\ a.hrp = "bitcoincash:" /\ N # "bitcoin-cash"
    \/ a.enc = "segwit" /\ segwitNet(a.hrp) # N
    \/ IsBase58Check(a) /\ a.data[1] \notin NetworkVersions(N)

\* C13: with an explicit network N, a well-formed address of another network is
\* refused with an error, and so is every well-formed address when N is not a
\* network name.
C13_MismatchIsError ==
    (/\ last.op = "Parse"
     /\ last.network # "auto"
     /\ C13_WellFormed(wire)
     /\ (C13_OtherNetwork(wire, last.network) \/ last.network \notin Networks))
    => (dec.err # NoErr /\ ~dec.panic)

\* a bitcoin segwit address was parsed as a litecoin address
C13_Witness ==
    /\ last.op = "Parse"
    /\ last.network = "litecoin"
    /\ wire.enc = "segwit"
    /\ wire.hrp = "bc"
    /\ dec.err # NoErr

\* a segwit version 1 address of the bitcoin network (bc1p...)
C14_Taproot(a) == a.enc = "segwit" /\ a.hrp = "bc" /\ a.typ = 1 /\ Len(a.data) = 32

\* C14: ParseBitcoinBasedAddress("bitcoin", a) accepts a taproot address a, and
\* Address() without hint on the Out it returns gives a back.
C14_TaprootRoundTrip ==
    /\ (last.op = "Parse" /\ last.network = "bitcoin" /\ C14_Taproot(wire))
           => (dec.err = NoErr /\ ~dec.panic)
    /\ (last.op = "AddressBack" /\ last.network = "bitcoin" /\ C14_Taproot(wire))
           => (last.err = NoErr /\ ~last.panic /\ last.back = wire)

\* the format and the networks a version byte stands for under "auto"
C15_Preference(v) ==
    CASE v = 0 -> [Name |-> "p2pkh", Flags |-> <<"bitcoin", "bitcoin-cash">>]
      [] v = 5 -> [Name |-> "p2sh", Flags |-> <<"bitcoin", "bitcoin-cash">>]
      [] v = 22 -> [Name |-> "p2sh", Flags |-> <<"dogecoin">>]
      [] v = 30 -> [Name |-> "p2pkh", Flags |-> <<"dogecoin">>]
      [] v = 48 -> [Name |-> "p2pkh", Flags |-> <<"litecoin">>]
      [] v = 50 -> [Name |-> "p2sh", Flags |-> <<"litecoin">>]
      [] v = 55 -> [Name |-> "p2sh", Flags |-> <<"monacoin">>]
      [] v = 137 -> [Name |-> "p2sh", Flags |-> <<"electraproto">>]
      [] OTHER -> [Name |-> "", Flags |-> <<>>]

\* the script of a format around a hash of at most 75 bytes
C15_Script(name, hash) ==
    IF name = "p2pkh" THEN <<118, 169, Len(hash)>> \o hash \o <<136, 172>>
    ELSE <<169, Len(hash)>> \o hash \o <<135>>

C15_Payload(a) == SubSeq(a.data, 2, Len(a.data) - 4)

\* C15: under "auto" a checksum-valid Base58Check address is mapped by its version
\* byte alone, in the fixed preference (0x32 is litecoin's p2sh, 0x37 monacoin's
\* p2sh), and every other version byte is an error.
C15_AutoPreference ==
    (last.op = "Parse" /\ last.network = "auto" /\ IsBase58Check(wire))
    => /\ ~dec.panic
       /\ IF C15_Preference(wire.data[1]).Name = "" THEN dec.err # NoErr
          ELSE /\ dec.err = NoErr
               /\ dec.out.Name = C15_Preference(wire.data[1]).Name
               /\ dec.out.Flags = C15_Preference(wire.data[1]).Flags
               /\ dec.out.raw = C15_Script(dec.out.Name, C15_Payload(wire))

\* the p2pkh address Address("monacoin") returned was parsed under "auto"
C15_Witness ==
    /\ last.op = "Parse"
    /\ last.network = "auto"
    /\ last.net = "monacoin"
    /\ IsBase58Check(wire)
    /\ wire.data[1] = 50
    /\ dec.out.Name = "p2sh"

----------------------------------------------------------------------------
(* Push-data decoding (ParsePushBytes) and specification SpecPush: a byte  *)
(* string is pushed, the encoding is cut short or a forged encoding        *)
(* arrives, and the result is parsed.  orig holds the data, wire the       *)
(* encoding and dec what ParsePushBytes returned.                          *)

\* what ParsePushBytes returns: the data and the bytes consumed, (nil, 0), or a panic
PushParsed(data, n) == [data |-> data, nil |-> FALSE, n |-> n, panic |-> FALSE]

PushNil == [data |-> <<>>, nil |-> TRUE, n |-> 0, panic |-> FALSE]

PushPanic == [data |-> <<>>, nil |-> TRUE, n |-> 0, panic |-> TRUE]

\* if len(v) >= l { return v[:l], l + hdr }, v being the input after hdr bytes
takePush(v, hdr, l) ==
    IF Len(v) - hdr >= l THEN PushParsed(SubSeq(v, hdr + 1, hdr + l), l + hdr) ELSE PushNil

\* v[0] of no bytes, v[2:] of fewer than two and v[4:] of fewer than four are out of range
ParsePushBytesOf(v) ==
    IF Len(v) = 0 THEN PushNil
    ELSE IF v[1] <= 75 THEN takePush(v, 1, v[1])
    ELSE IF v[1] = 76
         THEN IF Len(v) < 2 THEN PushPanic ELSE takePush(v, 2, v[2])
    ELSE IF v[1] = 77
         THEN IF Len(v) < 3 THEN PushPanic ELSE takePush(v, 3, LEValue(SubSeq(v, 2, 3)))
    ELSE IF v[1] = 78
         THEN IF Len(v) < 5 THEN PushPanic
              ELSE IF ~IsSmall(SubSeq(v, 2, 5)) THEN PushNil
              ELSE takePush(v, 5, LEValue(SubSeq(v, 2, 5)))
    ELSE PushNil

ParsePushBytes(b) == With(b, LAMBDA v : ParsePushBytesOf(v))

\* the lengths at which the encoding changes class, and their neighbours
PushLengths == {0, 1, 2, 74, 75, 76, 77, 254, 255, 256, 257, 65535, 65536, 70000}

PushSeeds == {0, 3}

\* data whose bytes differ from place to place
PushPattern(n, seed) == [i \in 1..n |-> (7 * i + seed) % 256]

\* encodings no PushBytes call returns
ForgedPushes ==
    {<<>>, <<10, 1, 2, 3, 4, 5>>, <<75>>, <<1>>,
     <<76>>, <<76, 5, 1, 2>>, <<76, 1>>,
     <<77>>, <<77, 1>>, <<77, 3, 0, 1>>, <<77, 0, 1, 9>>,
     <<78>>, <<78, 1>>, <<78, 1, 0>>, <<78, 1, 0, 0>>, <<78, 2, 0, 0, 0, 9>>,
     <<78, 0, 0, 0, 128>>, <<78, 0, 0, 0, 1, 1, 2>>,
     <<79>>, <<80, 0>>, <<172>>, <<255, 1, 2>>}

\* the longest encoding that is cut short
LongestCut == 300

\* how many leading bytes of an encoding may arrive
CutLengths(n) == {k \in {0, 1, 2, 3, 4, 5, n - 1} : k >= 0 /\ k < n /\ n <= LongestCut}

PushInit ==
    /\ BuilderIdle
    /\ orig \in {<<PushPattern(n, seed)>> : n \in PushLengths, seed \in PushSeeds} \cup {<<>>}
    /\ wire = <<>>
    /\ dec = PushNil
    /\ last = [op |-> "new", malformed |-> FALSE]

\* buf := PushBytes(data)
Push ==
    /\ last.op = "new"
    /\ orig # <<>>
    /\ wire' = PushBytes(orig[1])
    /\ last' = [op |-> "PushBytes", malformed |-> FALSE]
    /\ UNCHANGED <<tx, cp, heap, dec, orig, scripts>>

\* only the first k bytes of the encoding arrive
CutPush(k) ==
    /\ last.op = "PushBytes"
    /\ wire' = SubSeq(wire, 1, k)
    /\ last' = [op |-> "Cut", malformed |-> TRUE]
    /\ UNCHANGED <<tx, cp, heap, dec, orig, scripts>>

\* a forged encoding arrives
ForgePush(b) ==
    /\ last.op = "new"
    /\ orig = <<>>
    /\ wire' = b
    /\ last' = [op |-> "Forge", malformed |-> TRUE]
    /\ UNCHANGED <<tx, cp, heap, dec, orig, scripts>>

\* data, n := ParsePushBytes(buf)
ParsePush ==
    /\ last.op \in {"PushBytes", "Cut", "Forge"}
    /\ dec' = ParsePushBytes(wire)
    /\ last' = [op |-> "ParsePushBytes", malformed |-> last.malformed]
    /\ UNCHANGED <<tx, cp, heap, wire, orig, scripts>>

PushNext ==
    \/ Push
    \/ \E k \in CutLengths(Len(wire)) : CutPush(k)
    \/ \E b \in ForgedPushes : ForgePush(b)
    \/ ParsePush

SpecPush == PushInit /\ [][PushNext]_vars

\* the header of the shortest push of n bytes
C16_Header(n) == IF n <= 75 THEN 1 ELSE IF n <= 255 THEN 2 ELSE IF n <= 65535 THEN 3 ELSE 5

\* C16: ParsePushBytes(PushBytes(data)) returns data unchanged and, as the count
\* consumed, the length of the whole encoding: the payload and 1, 2, 3 or 5 header
\* bytes.
C16_PushRoundTrip ==
    (last.op = "ParsePushBytes" /\ ~last.malformed)
    => /\ ~dec.panic
       /\ ~dec.nil
       /\ dec.data = orig[1]
       /\ dec.n = Len(wire)
       /\ dec.n = Len(orig[1]) + C16_Header(Len(orig[1]))

\* 256 bytes, the first length past OP_PUSHDATA1, went through the round trip
C16_Witness ==
    /\ last.op = "ParsePushBytes"
    /\ ~last.malformed
    /\ Len(orig[1]) = 256
    /\ wire[1] = 77
    /\ dec.n = 259

\* C17: on every malformed input ParsePushBytes returns (nil, 0) and does not
\* panic.
C17_MalformedIsNil ==
    (last.op = "ParsePushBytes" /\ last.malformed)
    => (~dec.panic /\ dec.nil /\ dec.n = 0)

----------------------------------------------------------------------------
(* Specification SpecVarInt: a BtcVarInt of the whole uint64 range is      *)
(* encoded and read back.  orig holds the value as eight limbs, wire its   *)
(* encoding and dec what ReadFrom returned.                                *)

\* the limbs above the first k are zero: the value is below 256^k
FitsBytes(v, k) == \A i \in (k + 1)..Len(v) : v[i] = 0

\* BtcVarInt.Bytes with 0xffff sent to the four-byte form
BtcVarIntBytes64_EarlyWide(v) ==
    IF FitsBytes(v, 1) /\ v[1] <= 252 THEN <<v[1]>>
    ELSE IF FitsBytes(v, 2) /\ ~(v[1] = 255 /\ v[2] = 255) THEN <<253>> \o SubSeq(v, 1, 2)
    ELSE IF FitsBytes(v, 4) THEN <<254>> \o SubSeq(v, 1, 4)
    ELSE <<255>> \o v

\* BtcVarInt.Bytes, for uint64 limbs
BtcVarIntBytes64(v) ==
    IF FitsBytes(v, 1) /\ v[1] <= 252 THEN <<v[1]>>
    ELSE IF FitsBytes(v, 2) THEN <<253>> \o SubSeq(v, 1, 2)
    ELSE IF FitsBytes(v, 4) THEN <<254>> \o SubSeq(v, 1, 4)
    ELSE <<255>> \o v

\* BtcVarInt.Len, for uint64 limbs
BtcVarIntLen64(v) ==
    IF FitsBytes(v, 1) /\ v[1] <= 252 THEN 1
    ELSE IF FitsBytes(v, 2) THEN 3
    ELSE IF FitsBytes(v, 4) THEN 5
    ELSE 9

\* the low bytes tried at every magnitude
VarIntLows == {0, 1, 252, 253, 254, 255}

\* a low byte alone, a low byte under one higher limb, and 0xff..ff of every width
VarIntValues ==
    {U64(<<b>>) : b \in VarIntLows}
    \cup {[i \in 1..8 |-> IF i = 1 THEN b ELSE IF i = j THEN h ELSE 0] :
              b \in VarIntLows, j \in 2..8, h \in {1, 255}}
    \cup {U64(Fill(k, 255)) : k \in 1..8}

VarIntInit ==
    /\ BuilderIdle
    /\ orig \in {<<v>> : v \in VarIntValues}
    /\ wire = <<>>
    /\ dec = [st |-> Reader0, val |-> Zeros(8)]
    /\ last = [op |-> "new", len |-> 0]

\* b := v.Bytes(); n := v.Len()
VarIntBytes ==
    /\ last.op = "new"
    /\ wire' = BtcVarIntBytes64(orig[1])
    /\ last' = [op |-> "Bytes", len |-> BtcVarIntLen64(orig[1])]
    /\ UNCHANGED <<tx, cp, heap, dec, orig, scripts>>

\* _, err := v2.ReadFrom(bytes.NewReader(b))
VarIntReadFrom ==
    /\ last.op = "Bytes"
    /\ dec' = BtcVarIntReadFrom(wire, Reader0)
    /\ last' = [op |-> "ReadFrom", len |-> last.len]
    /\ UNCHANGED <<tx, cp, heap, wire, orig, scripts>>

VarIntNext == VarIntBytes \/ VarIntReadFrom

SpecVarInt == VarIntInit /\ [][VarIntNext]_vars

\* an encoding of n bytes can hold the value: one byte up to 0xfc, else a tag and
\* 2, 4 or 8 bytes
C18_CanHold(n, v) ==
    CASE n = 1 -> FitsBytes(v, 1) /\ v[1] <= 252
      [] n = 3 -> FitsBytes(v, 2)
      [] n = 5 -> FitsBytes(v, 4)
      [] n = 9 -> TRUE

C18_Tag(n) == CASE n = 3 -> 253 [] n = 5 -> 254 [] n = 9 -> 255

\* C18: v.Bytes() is the shortest encoding able to hold v, with the tag of its
\* width, v.Len() is its length, and ReadFrom of it yields v without error.
C18_VarIntRoundTrip ==
    /\ last.op \in {"Bytes", "ReadFrom"} =>
           /\ Len(wire) \in {1, 3, 5, 9}
           /\ C18_CanHold(Len(wire), orig[1])
           /\ \A n \in {1, 3, 5, 9} : C18_CanHold(n, orig[1]) => Len(wire) <= n
           /\ Len(wire) > 1 => wire[1] = C18_Tag(Len(wire))
           /\ last.len = Len(wire)
    /\ last.op = "ReadFrom" =>
           /\ dec.st.err = NoErr
           /\ dec.st.pos = Len(wire)
           /\ dec.val = orig[1]

\* 0xffff, the last value of the three-byte form, was read back
C18_Witness ==
    /\ last.op = "ReadFrom"
    /\ orig[1] = U64(<<255, 255>>)
    /\ wire = <<253, 255, 255>>
    /\ dec.val = orig[1]

----------------------------------------------------------------------------
(* Script: a public key and the cache of the byte strings generated for    *)
(* it.  The format table is the one whose entries look the key up by name  *)
(* ("pubkey:comp"), so a Generate call may fill several entries.  None of  *)
(* Generate, Out and Address writes through a slice it was given, and the  *)
(* cached bytes are kept as values.                                        *)

\* the ed25519 key of the model
Ed25519Key == 7

ScriptKeys == Keys \cup {Ed25519Key}

PubKeyNames == {"pubkey:ed25519", "pubkey:comp", "pubkey:uncomp"}

FormatNames ==
    KeyFormats \cup P2shFormats \cup P2wshFormats \cup {"eth", "massa_pubkey", "massa"}

\* a name that is neither a key encoding nor a format
UnknownFormat == "p2nothing"

CacheNames == PubKeyNames \cup FormatNames \cup {UnknownFormat}

\* the Insertable values
LiteralBytes(b) == [t |-> "Bytes", b |-> b]

LookupOf(name) == [t |-> "Lookup", name |-> name]

IPushBytes(v) == [t |-> "IPushBytes", v |-> v]

IHash(v, hash) == [t |-> "IHash", v |-> v, hash |-> hash]

IHash160(v) == IHash(v, "hash160")

\* etherHash: Keccak-256 of all but the first byte, its last 20 bytes
EtherHash(b) == Digest(3, Tail(b), 20)

\* blake3.New(32, nil)
MassaHash(b) == Digest(4, b, 32)

\* cryptutil.Hash(v, i.hash...)
ApplyHash(hash, v) ==
    CASE hash = "hash160" -> Hash160(v)
      [] hash = "sha256" -> SHA256(v)
      [] hash = "ether" -> EtherHash(v)
      [] hash = "massa" -> MassaHash(v)

\* the Formats table
Formats(name) ==
    CASE name = "p2pkh" ->
             <<LiteralBytes(<<118, 169>>), IPushBytes(IHash160(LookupOf("pubkey:comp"))),
               LiteralBytes(<<136, 172>>)>>
      [] name = "p2pukh" ->
             <<LiteralBytes(<<118, 169>>), IPushBytes(IHash160(LookupOf("pubkey:uncomp"))),
               LiteralBytes(<<136, 172>>)>>
      [] name = "p2pk" -> <<IPushBytes(LookupOf("pubkey:comp")), LiteralBytes(<<172>>)>>
      [] name = "p2puk" -> <<IPushBytes(LookupOf("pubkey:uncomp")), LiteralBytes(<<172>>)>>
      [] name = "p2wpkh" ->
             <<LiteralBytes(<<0>>), IPushBytes(IHash160(LookupOf("pubkey:comp")))>>
      [] name \in P2shFormats ->
             <<LiteralBytes(<<169>>), IPushBytes(IHash160(LookupOf(Lookup(name)))),
               LiteralBytes(<<135>>)>>
      [] name \in P2wshFormats ->
             <<LiteralBytes(<<0>>), IPushBytes(IHash(LookupOf(Lookup(name)), "sha256"))>>
      [] name = "eth" -> <<IHash(LookupOf("pubkey:uncomp"), "ether")>>
      [] name = "massa_pubkey" -> <<LiteralBytes(<<0>>), LookupOf("pubkey:ed25519")>>
      [] name = "massa" ->
             <<LiteralBytes(<<0, 0>>), IHash(LookupOf("massa_pubkey"), "massa")>>

\* a missing cache entry
NoEntry == [ok |-> FALSE, bytes |-> <<>>]

\* New(pubkey)
New(pubkey) == [pubkey |-> pubkey, cache |-> [name \in CacheNames |-> NoEntry]]

\* what Generate and Insertable.Bytes return, and the Script they leave
Generated(s, res) == [s |-> s, res |-> res, err |-> NoErr]

GenerateErr(s, e) == [s |-> s, res |-> <<>>, err |-> e]

\* Script.getPubKeyBytes, for a key of either kind
getPubKeyBytesOf(s, typ) ==
    CASE typ = "pubkey:ed25519" ->
             IF s.pubkey = Ed25519Key THEN Generated(s, Fill(32, s.pubkey))
             ELSE GenerateErr(s, "pubkey does not support export")
      [] typ \in {"pubkey:comp", "pubkey:uncomp"} ->
             IF s.pubkey \in Keys THEN Generated(s, getPubKeyBytes(s.pubkey, typ))
             ELSE GenerateErr(s, "pubkey does not support export")
      [] OTHER -> GenerateErr(s, "unknown public key format")

\* the cache read by the name a p2sh: or p2wsh: format wraps
cacheLookup_ByInnerName(s, name) ==
    IF name \in P2shFormats \cup P2wshFormats /\ s.cache[Lookup(name)].ok
    THEN s.cache[Lookup(name)]
    ELSE s.cache[name]

\* r, ok := s.cache[name]
cacheLookup(s, name) == s.cache[name]

\* s.cache[name] = res on a cache emptied first
cachePut_Fresh(s, name, res) ==
    [s EXCEPT !.cache = [n \in CacheNames |-> IF n = name THEN [ok |-> TRUE, bytes |-> res]
                                               ELSE NoEntry]]

\* s.cache[name] = res
cachePut(s, name, res) == [s EXCEPT !.cache[name] = [ok |-> TRUE, bytes |-> res]]

RECURSIVE ScriptGenerate(_, _)
RECURSIVE InsertableBytes(_, _)
RECURSIVE generatePieces(_, _, _, _)

\* piece.Bytes(s)
InsertableBytes(s, piece) ==
    CASE piece.t = "Bytes" -> Generated(s, piece.b)
      [] piece.t = "Lookup" -> ScriptGenerate(s, piece.name)
      [] piece.t = "IPushBytes" ->
             With(InsertableBytes(s, piece.v),
                  LAMBDA r : IF r.err # NoErr THEN r ELSE Generated(r.s, PushBytes(r.res)))
      [] piece.t = "IHash" ->
             With(InsertableBytes(s, piece.v),
                  LAMBDA r : IF r.err # NoErr THEN r
                             ELSE Generated(r.s, ApplyHash(piece.hash, r.res)))

\* for _, piece := range f, then slices.Concat(pieces...)
generatePieces(s, f, i, acc) ==
    IF i > Len(f) THEN Generated(s, acc)
    ELSE With(InsertableBytes(s, f[i]),
              LAMBDA r : IF r.err # NoErr THEN r
                         ELSE generatePieces(r.s, f, i + 1, acc \o r.res))

\* s.Generate(name)
ScriptGenerate(s, name) ==
    IF cacheLookup(s, name).ok THEN Generated(s, cacheLookup(s, name).bytes)
    ELSE IF name \in PubKeyNames
         THEN With(getPubKeyBytesOf(s, name),
                   LAMBDA r : IF r.err # NoErr THEN r
                              ELSE Generated(cachePut(s, name, r.res), r.res))
    ELSE IF name \notin FormatNames THEN GenerateErr(s, "unsupported format")
    ELSE With(generatePieces(s, Formats(name), 1, <<>>),
              LAMBDA r : IF r.err # NoErr THEN r
                         ELSE Generated(cachePut(r.s, name, r.res), r.res))

\* s.Out(name): the Script it leaves, the Out and the error
ScriptOutOf(s, name) ==
    With(ScriptGenerate(s, name),
         LAMBDA r : [s |-> r.s, err |-> r.err,
                     out |-> IF r.err # NoErr THEN NoOut ELSE makeOut(name, r.res, <<>>)])

\* s.Address(script, flags...): the Script it leaves, the address and the error
ScriptAddress(s, name, flags) ==
    With(ScriptOutOf(s, name),
         LAMBDA r : IF r.err # NoErr
                    THEN [s |-> r.s, err |-> r.err, addr |-> NoAddr, out |-> r.out]
                    ELSE [s |-> r.s, err |-> OutAddress(r.out, flags).err,
                          addr |-> OutAddress(r.out, flags).addr, out |-> r.out])

----------------------------------------------------------------------------
(* Specification SpecScript: two Script instances are built from one key   *)
(* and Generate, Out and Address are called on them in any order.          *)

\* the calls made on the two instances
MaxCalls == 3

InitKeys == {1, Ed25519Key}

\* every name of the table, the three key encodings and a name of no format
GenerateNames == CacheNames

OutNames == {"p2sh:p2pkh", "p2pukh"}

AddressNames == {"p2pkh", "p2puk"}

\* the call, its result and the instances before it; generated tells whether the
\* Generate inside the call succeeded
CallLog(op, i, name, res, err, generated) ==
    [op |-> op, i |-> i, name |-> name, res |-> res, err |-> err, generated |-> generated,
     ops |-> last.ops + 1, pre |-> scripts]

ScriptInit ==
    /\ tx = EmptyTx
    /\ cp = <<>>
    /\ heap = <<>>
    /\ wire = <<>>
    /\ dec = NoDec
    /\ orig = <<>>
    /\ scripts \in {<<New(k), New(k)>> : k \in InitKeys}
    /\ last = [op |-> "new", i |-> 0, name |-> "", res |-> <<>>, err |-> NoErr,
               generated |-> FALSE, ops |-> 0, pre |-> scripts]

GenerateStore(i, name, r) ==
    /\ scripts' = [scripts EXCEPT ![i] = r.s]
    /\ last' = CallLog("Generate", i, name, r.res, r.err, r.err = NoErr)

\* buf, err := s.Generate(name)
GenerateCall(i, name) ==
    /\ last.ops < MaxCalls
    /\ \E r \in {ScriptGenerate(scripts[i], name)} : GenerateStore(i, name, r)
    /\ UNCHANGED <<tx, cp, heap, wire, dec, orig>>

OutStore(i, name, r) ==
    /\ scripts' = [scripts EXCEPT ![i] = r.s]
    /\ last' = CallLog("Out", i, name, r.out.raw, r.err, r.err = NoErr)

\* out, err := s.Out(name)
OutCall(i, name) ==
    /\ last.ops < MaxCalls
    /\ \E r \in {ScriptOutOf(scripts[i], name)} : OutStore(i, name, r)
    /\ UNCHANGED <<tx, cp, heap, wire, dec, orig>>

AddressCallStore(i, name, r) ==
    /\ scripts' = [scripts EXCEPT ![i] = r.s]
    /\ last' = CallLog("Address", i, name, r.out.raw, r.err, r.out # NoOut)

\* addr, err := s.Address(name, net)
AddressCall(i, name, net) ==
    /\ last.ops < MaxCalls
    /\ \E r \in {ScriptAddress(scripts[i], name, <<net>>)} : AddressCallStore(i, name, r)
    /\ UNCHANGED <<tx, cp, heap, wire, dec, orig>>

ScriptNext ==
    \/ \E i \in 1..2 : \E name \in GenerateNames : GenerateCall(i, name)
    \/ \E i \in 1..2 : \E name \in OutNames : OutCall(i, name)
    \/ \E i \in 1..2 : \E name \in AddressNames : AddressCall(i, name, "litecoin")

SpecScript == ScriptInit /\ [][ScriptNext]_vars

\* Generate(name) on a Script just built from the key
FreshTable ==
    [k \in ScriptKeys |-> [name \in CacheNames |-> ScriptGenerate(New(k), name)]]

Fresh(k, name) == FreshTable[k][name]

\* C19: the bytes a call returns for a name are those a fresh evaluation gives,
\* those the same instance returned or cached for the name before, and those the
\* other instance holds for it, whatever was generated before on either.
C19_GenerateDeterministic ==
    (last.op # "new" /\ last.generated)
    => /\ Fresh(scripts[last.i].pubkey, last.name).err = NoErr
       /\ last.res = Fresh(scripts[last.i].pubkey, last.name).res
       /\ last.pre[last.i].cache[last.name].ok
              => last.res = last.pre[last.i].cache[last.name].bytes
       /\ \A j \in 1..2 : scripts[j].cache[last.name].ok
              => last.res = scripts[j].cache[last.name].bytes

\* a name was generated again on an instance that held it, the other holding it too
C19_Witness ==
    /\ last.op = "Generate"
    /\ last.name = "p2sh:p2pkh"
    /\ last.err = NoErr
    /\ last.pre[last.i].cache["p2sh:p2pkh"].ok
    /\ last.pre[last.i].cache["p2pkh"].ok
    /\ scripts[3 - last.i].cache["p2sh:p2pkh"].ok

\* C20: over Generate, Out and Address calls an entry once present is never removed
\* or overwritten, every entry is what a fresh evaluation of its name gives, a
\* call whose Generate fails adds no entry for the failing name, and a call
\* leaves the other instance alone.
C20_CacheOnlyGrows ==
    /\ \A i \in 1..2 : \A name \in CacheNames :
           /\ last.pre[i].cache[name].ok => scripts[i].cache[name] = last.pre[i].cache[name]
           /\ scripts[i].cache[name].ok =>
                  /\ Fresh(scripts[i].pubkey, name).err = NoErr
                  /\ scripts[i].cache[name].bytes = Fresh(scripts[i].pubkey, name).res
    /\ (last.op # "new" /\ ~last.generated) => ~scripts[last.i].cache[last.name].ok
    /\ last.op # "new" => scripts[3 - last.i] = last.pre[3 - last.i]

\* a failing call came after two calls that filled the cache of the same instance
C20_Witness ==
    /\ last.op = "Generate"
    /\ last.err # NoErr
    /\ last.ops = 3
    /\ scripts[last.i].cache["p2sh:p2pkh"].ok
    /\ scripts[last.i].cache["eth"].ok
    /\ ~scripts[last.i].cache[last.name].ok

----------------------------------------------------------------------------
(* GuessOut and Out.Hash.  A result is the Out returned, or a run-time     *)
(* panic: GuessOut hands the script to ParsePushBytes, which indexes past  *)
(* the end of some inputs.                                                 *)

\* pubkeyhint == nil
NilHint == 0

GuessReturned(out) == [out |-> out, panic |-> FALSE]

GuessPanic == [out |-> NoOut, panic |-> TRUE]

HasPrefix(b, p) == Len(b) >= Len(p) /\ SubSeq(b, 1, Len(p)) = p

HasSuffix(b, p) == Len(b) >= Len(p) /\ SubSeq(b, Len(b) - Len(p) + 1, Len(b)) = p

\* switch len(script) under a leading zero, with any other length taken for p2wsh
guessSegwit_AnyLength(script) ==
    IF Len(script) = 22 THEN makeOut("p2wpkh", script, <<>>)
    ELSE makeOut("p2wsh", script, <<>>)

\* switch len(script) under a leading zero
guessSegwit(script) ==
    IF Len(script) = 22 THEN makeOut("p2wpkh", script, <<>>)
    ELSE IF Len(script) = 34 THEN makeOut("p2wsh", script, <<>>)
    ELSE makeOut("invalid", script, <<>>)

RECURSIVE guessByHint(_, _, _, _, _)
\* for _, e := range names { buf, err := s.Generate(e); ... }, then the default name
guessByHint(s, names, i, script, dflt) ==
    IF i > Len(names) THEN makeOut(dflt, script, <<>>)
    ELSE With(ScriptGenerate(s, names[i]),
              LAMBDA r : IF r.err = NoErr /\ r.res = script
                         THEN makeOut(names[i], script, <<>>)
                         ELSE guessByHint(r.s, names, i + 1, script, dflt))

\* case script[len(script)-1] == 0xac
guessChecksig(script, pubkeyhint) ==
    IF Len(script) = 25 /\ HasPrefix(script, <<118, 169, 20>>) /\ HasSuffix(script, <<136, 172>>)
    THEN GuessReturned(IF pubkeyhint = NilHint THEN makeOut("p2pkh", script, <<>>)
                       ELSE guessByHint(New(pubkeyhint), <<"p2pkh", "p2pukh">>, 1, script,
                                        "p2pkh"))
    ELSE With(ParsePushBytes(script),
              LAMBDA v : IF v.panic THEN GuessPanic
                         ELSE IF ~v.nil /\ PushBytes(v.data) \o <<172>> = script
                                 /\ Len(v.data) = 33
                              THEN GuessReturned(makeOut("p2pk", script, <<>>))
                         ELSE IF ~v.nil /\ PushBytes(v.data) \o <<172>> = script
                                 /\ Len(v.data) = 65
                              THEN GuessReturned(makeOut("p2puk", script, <<>>))
                         ELSE GuessReturned(makeOut("invalid", script, <<>>)))

\* case script[len(script)-1] == 0x87
guessEqual(script, pubkeyhint) ==
    With(ParsePushBytes(Tail(script)),
         LAMBDA v : IF v.panic THEN GuessPanic
                    ELSE IF ~v.nil /\ <<169>> \o PushBytes(v.data) \o <<135>> = script
                         THEN GuessReturned(
                                  IF pubkeyhint = NilHint THEN makeOut("p2sh", script, <<>>)
                                  ELSE guessByHint(New(pubkeyhint),
                                                   <<"p2sh:p2pk", "p2sh:p2pkh", "p2sh:p2puk",
                                                     "p2sh:p2pukh", "p2sh:p2wpkh">>,
                                                   1, script, "p2sh"))
                    ELSE GuessReturned(makeOut("invalid", script, <<>>)))

GuessOutOf(script, pubkeyhint) ==
    IF Len(script) = 0 THEN GuessReturned(makeOut("empty", script, <<"invalid">>))
    ELSE IF script[1] = 0 THEN GuessReturned(guessSegwit(script))
    ELSE IF script[1] = 81
         THEN GuessReturned(IF Len(script) = 32 THEN makeOut("p2tr", script, <<>>)
                            ELSE makeOut("invalid", script, <<>>))
    ELSE IF script[1] = 106 THEN GuessReturned(makeOut("op_return", script, <<>>))
    ELSE IF script[Len(script)] = 172 THEN guessChecksig(script, pubkeyhint)
    ELSE IF script[Len(script)] = 135 THEN guessEqual(script, pubkeyhint)
    ELSE GuessReturned(makeOut("invalid", script, <<>>))

\* GuessOut
GuessOut(script, pubkeyhint) == With(script, LAMBDA b : GuessOutOf(b, pubkeyhint))

\* what Out.Hash returns: bytes, nil, or an index out of range
Hashed(data) == [data |-> data, nil |-> FALSE, panic |-> FALSE]

HashNil == [data |-> <<>>, nil |-> TRUE, panic |-> FALSE]

HashPanic == [data |-> <<>>, nil |-> TRUE, panic |-> TRUE]

\* res, _ := ParsePushBytes(o.raw[from:]); return res
hashPushed(raw, from) ==
    IF Len(raw) < from THEN HashPanic
    ELSE With(ParsePushBytes(SubSeq(raw, from + 1, Len(raw))),
              LAMBDA v : IF v.panic THEN HashPanic
                         ELSE IF v.nil THEN HashNil
                         ELSE Hashed(v.data))

\* pub, _ := ParsePushBytes(o.raw); return gobottle.Hash(pub, sha256.New, ripemd160.New)
hashKey(raw) ==
    With(ParsePushBytes(raw),
         LAMBDA v : IF v.panic THEN HashPanic ELSE Hashed(Hash160(v.data)))

\* Out.Hash
OutHash(o) ==
    CASE o.Name \in {"p2wpkh", "p2tr"} -> hashPushed(o.raw, 1)
      [] o.Name \in {"p2pkh", "p2pukh"} -> hashPushed(o.raw, 2)
      [] o.Name \in {"p2pk", "p2puk"} -> hashKey(o.raw)
      [] o.Name = "p2sh" -> hashPushed(o.raw, 1)
      [] o.Name \in {"eth", "massa", "solana"} -> Hashed(o.raw)
      [] OTHER -> HashNil

----------------------------------------------------------------------------
(* Specification SpecGuess: a script, generated for a key or received from *)
(* a third party, is classified by GuessOut under a hint, or built as an   *)
(* Out by Script.Out, and the Out is asked for its hash.  orig holds the   *)
(* script and where it came from, dec the Out (or the panic) and wire what *)
(* Out.Hash returned.                                                      *)

GuessHints == {NilHint} \cup ScriptKeys

\* a script as Generate(name) made it for the key
FromKey(k, name) == [script |-> Fresh(k, name).res, name |-> name, key |-> k]

\* a script no key of the model is known for
Received(b) == [script |-> b, name |-> "", key |-> NilHint]

GeneratedScripts ==
    {FromKey(k, name) : k \in ScriptKeys,
                        name \in FormatNames}

ForeignKey == <<3>> \o Fill(32, 200)

ForeignUncompKey == <<4>> \o Fill(64, 201)

\* scripts of third parties and byte strings that are no script
ReceivedScripts ==
    {<<>>, <<0>>, <<0, 20>>, <<1, 2, 3>>, <<172>>, <<135>>, <<81>>, <<106>>,
     <<0>> \o PushBytes(ForeignHash20), <<0>> \o PushBytes(ForeignHash32),
     <<0>> \o Fill(21, 9), <<0>> \o Fill(33, 9), <<0>> \o Fill(20, 9), <<0>> \o Fill(31, 135),
     <<81>> \o PushBytes(ForeignHash32), <<81>> \o Fill(31, 7), <<81>> \o Fill(30, 172),
     <<106, 11, 104, 101, 108, 108, 111>>, <<106>> \o Fill(23, 136) \o <<172>>,
     <<106, 20>> \o ForeignHash20 \o <<135>>,
     <<118, 169>> \o PushBytes(ForeignHash20) \o <<136, 172>>,
     <<118, 169, 19>> \o ForeignHash20 \o <<136, 172>>,
     <<118, 169, 20>> \o ForeignHash20 \o <<135, 172>>,
     <<118, 169>> \o PushBytes(ForeignHash32) \o <<136, 172>>,
     PushBytes(ForeignKey) \o <<172>>, PushBytes(ForeignUncompKey) \o <<172>>,
     <<76, 33>> \o ForeignKey \o <<172>>, PushBytes(ForeignHash32) \o <<172>>,
     <<33>> \o ForeignKey \o <<1, 172>>, <<34>> \o ForeignKey \o <<172>>,
     <<76, 172>>, <<77, 172>>, <<77, 1, 172>>, <<77, 1, 0, 172>>,
     <<78, 172>>, <<78, 1, 0, 172>>, <<78, 1, 0, 0, 172>>, <<78, 1, 0, 0, 0, 172>>,
     <<169>> \o PushBytes(ForeignHash20) \o <<135>>,
     <<169>> \o PushBytes(ForeignHash32) \o <<135>>,
     <<169, 0, 135>>, <<169, 135>>, <<169, 76, 20>> \o ForeignHash20 \o <<135>>,
     <<169, 21>> \o ForeignHash20 \o <<135>>, <<168>> \o PushBytes(ForeignHash20) \o <<135>>,
     <<169>> \o PushBytes(Fill(80, 5)) \o <<135>>,
     <<169, 76, 135>>, <<169, 77, 135>>, <<169, 77, 1, 135>>, <<169, 78, 135>>,
     <<169, 78, 1, 0, 0, 135>>, <<1, 77, 135>>}

GuessInit ==
    /\ BuilderIdle
    /\ orig \in GeneratedScripts \cup {Received(b) : b \in ReceivedScripts}
    /\ orig.name # "" => Fresh(orig.key, orig.name).err = NoErr
    /\ dec = GuessPanic
    /\ wire = HashNil
    /\ last = [op |-> "new", hint |-> NilHint, of |-> ""]

\* out := GuessOut(script, pubkeyhint)
Guess(pubkeyhint) ==
    /\ last.op = "new"
    /\ dec' = GuessOut(orig.script, pubkeyhint)
    /\ last' = [op |-> "GuessOut", hint |-> pubkeyhint, of |-> ""]
    /\ UNCHANGED <<tx, cp, heap, wire, orig, scripts>>

\* out, err := New(key).Out(name)
OutOfKey ==
    /\ last.op = "new"
    /\ orig.name # ""
    /\ dec' = GuessReturned(ScriptOutOf(New(orig.key), orig.name).out)
    /\ last' = [op |-> "Out", hint |-> NilHint, of |-> ""]
    /\ UNCHANGED <<tx, cp, heap, wire, orig, scripts>>

\* h := out.Hash()
HashOut ==
    /\ last.op \in {"GuessOut", "Out"}
    /\ ~dec.panic
    /\ wire' = OutHash(dec.out)
    /\ last' = [op |-> "Hash", hint |-> last.hint, of |-> last.op]
    /\ UNCHANGED <<tx, cp, heap, dec, orig, scripts>>

GuessNext ==
    \/ \E pubkeyhint \in GuessHints : Guess(pubkeyhint)
    \/ OutOfKey
    \/ HashOut

SpecGuess == GuessInit /\ [][GuessNext]_vars

\* b is one push in its shortest form: the header the length calls for, then the data
C21_CanonicalPush(b) ==
    /\ Len(b) >= 1
    /\ \/ b[1] <= 75 /\ Len(b) = 1 + b[1]
       \/ b[1] = 76 /\ Len(b) >= 2 /\ b[2] >= 76 /\ Len(b) = 2 + b[2]
       \/ b[1] = 77 /\ Len(b) >= 3 /\ b[2] + 256 * b[3] >= 256
                    /\ Len(b) = 3 + b[2] + 256 * b[3]

\* the name among names, taken in order, whose script for the hint key is b
RECURSIVE C21_HintName(_, _, _, _, _)
C21_HintName(k, names, i, b, dflt) ==
    IF k \notin Keys \/ i > Len(names) THEN dflt
    ELSE IF Generate(k, names[i]) = b THEN names[i]
    ELSE C21_HintName(k, names, i + 1, b, dflt)

\* the name the rules give, the first matching rule deciding
C21_Rule(b, k) ==
    IF Len(b) = 0 THEN "empty"
    ELSE IF b[1] = 0 THEN (IF Len(b) = 22 THEN "p2wpkh" ELSE IF Len(b) = 34 THEN "p2wsh"
                           ELSE "invalid")
    ELSE IF b[1] = 81 THEN (IF Len(b) = 32 THEN "p2tr" ELSE "invalid")
    ELSE IF b[1] = 106 THEN "op_return"
    ELSE IF b[Len(b)] = 172 /\ Len(b) = 25 /\ SubSeq(b, 1, 3) = <<118, 169, 20>>
            /\ b[24] = 136
         THEN C21_HintName(k, <<"p2pkh", "p2pukh">>, 1, b, "p2pkh")
    ELSE IF b[Len(b)] = 172 /\ C21_CanonicalPush(SubSeq(b, 1, Len(b) - 1)) /\ Len(b) = 35
         THEN "p2pk"
    ELSE IF b[Len(b)] = 172 /\ C21_CanonicalPush(SubSeq(b, 1, Len(b) - 1)) /\ Len(b) = 67
         THEN "p2puk"
    ELSE IF b[Len(b)] = 135 /\ b[1] = 169 /\ C21_CanonicalPush(SubSeq(b, 2, Len(b) - 1))
         THEN C21_HintName(k, <<"p2sh:p2pk", "p2sh:p2pkh", "p2sh:p2puk", "p2sh:p2pukh",
                                "p2sh:p2wpkh">>, 1, b, "p2sh")
    ELSE "invalid"

C22_GuessNeverPanics == last.op = "GuessOut" => ~dec.panic

\* a script generated for a secp256k1 key was classified under the hint of that key
C23_Case == last.op = "GuessOut" /\ orig.name # "" /\ orig.key \in Keys /\ last.hint = orig.key

\* C23: for every name of the format table and every secp256k1 key,
\* GuessOut(Generate(name), key) returns an Out of that name holding the generated
\* script.
C23_GuessRecoversName ==
    C23_Case => (~dec.panic /\ dec.out.Name = orig.name /\ dec.out.raw = orig.script)

\* the names GuessOut does recover: the key formats and the p2sh:* formats
C23_RecoveredNames ==
    (C23_Case /\ orig.name \in KeyFormats \cup P2shFormats)
    => (~dec.panic /\ dec.out.Name = orig.name /\ dec.out.raw = orig.script)

\* the pay-to-hash names
C24_HashForms ==
    {"p2pkh", "p2pukh", "p2wpkh", "p2sh", "p2wsh"} \cup P2shFormats \cup P2wshFormats

\* the bytes before the push of a pay-to-hash or pay-to-key script, and those after
C24_Lead(name) == IF name \in {"p2pkh", "p2pukh"} THEN 2 ELSE IF name \in {"p2pk", "p2puk"} THEN 0
                  ELSE 1

C24_Trail(name) == IF name \in {"p2pkh", "p2pukh"} THEN 2
                   ELSE IF name \in {"p2sh", "p2pk", "p2puk"} \cup P2shFormats THEN 1 ELSE 0

\* the script is lead bytes, one push of up to 75 bytes, trail bytes
C24_Shaped(o) ==
    /\ Len(o.raw) > C24_Lead(o.Name)
    /\ o.raw[C24_Lead(o.Name) + 1] <= 75
    /\ Len(o.raw) = C24_Lead(o.Name) + 1 + o.raw[C24_Lead(o.Name) + 1] + C24_Trail(o.Name)

\* the data of that push
C24_Payload(o) == SubSeq(o.raw, C24_Lead(o.Name) + 2, Len(o.raw) - C24_Trail(o.Name))

\* C24: Out.Hash returns the embedded push-data payload for the pay-to-hash names
\* (p2pkh, p2pukh, p2wpkh, p2sh and p2sh:*, p2wsh and p2wsh:*), HASH160 of the
\* embedded key for p2pk and p2puk, the raw bytes for eth and massa, and nil for a
\* name of no known format; it never panics.
C24_HashByName ==
    last.op = "Hash"
    => /\ ~wire.panic
       /\ (dec.out.Name \in C24_HashForms /\ C24_Shaped(dec.out))
              => (~wire.nil /\ wire.data = C24_Payload(dec.out))
       /\ (dec.out.Name \in {"p2pk", "p2puk"} /\ C24_Shaped(dec.out))
              => (~wire.nil /\ wire.data = Hash160(C24_Payload(dec.out)))
       /\ dec.out.Name \in {"eth", "massa"} => (~wire.nil /\ wire.data = dec.out.raw)
       /\ dec.out.Name \in {"invalid", "empty"} => wire.nil

\* the names for which Out.Hash has a case
C24_HashOfCasedNames ==
    last.op = "Hash"
    => /\ ~wire.panic
       /\ (dec.out.Name \in {"p2pkh", "p2pukh", "p2wpkh", "p2sh"} /\ C24_Shaped(dec.out))
              => (~wire.nil /\ wire.data = C24_Payload(dec.out))
       /\ (dec.out.Name \in {"p2pk", "p2puk"} /\ C24_Shaped(dec.out))
              => (~wire.nil /\ wire.data = Hash160(C24_Payload(dec.out)))
       /\ dec.out.Name \in {"eth", "massa"} => (~wire.nil /\ wire.data = dec.out.raw)
       /\ dec.out.Name \in {"invalid", "empty", "p2wsh"} \cup P2shFormats \cup P2wshFormats
              => wire.nil

----------------------------------------------------------------------------
(* ComputeSize against the serialization (specification SpecCodec).        *)

\* the byte length of the witness section: per input the item count, then each
\* item's length and bytes
C25_WitnessSection(t) == Len(Flatten([i \in 1..Len(t.In) |-> WitnessBytes(t.In[i])]))

\* the virtual size read off the serialization
C25_VirtualSize(t) ==
    IF \A i \in 1..Len(t.In) : t.In[i].Witnesses = <<>>
    THEN Len(Bytes(t))
    ELSE Len(exportBytes(t, FALSE)) + ((C25_WitnessSection(t) + 2 + 3) \div 4)

\* C25: ComputeSize() is len(tx.Bytes()) for a transaction in which no input has
\* witness items, and otherwise the length of the non-witness serialization plus
\* ceil((W + 2) / 4), W being the byte length of the witness section.
C25_ComputeSizeIsVirtualSize ==
    last.op = "ComputeSize" => last.size = C25_VirtualSize(orig[1])

\* the same for the transactions that have witness items or no input at all
C25_SizeWithWitnessOrNoInput ==
    (last.op = "ComputeSize"
     /\ (orig[1].In = <<>> \/ \E i \in 1..Len(orig[1].In) : orig[1].In[i].Witnesses # <<>>))
    => last.size = C25_VirtualSize(orig[1])

----------------------------------------------------------------------------
(* What Sign hands to the signer (specification Spec).  last.signed holds  *)
(* the messages of the last Sign call in the order of the inputs, and the  *)
(* digest signed is the double SHA-256 of the message.                     *)

\* the schemes Sign has a case for
SupportedSchemes == {"p2pk", "p2pkh", "p2pukh", "p2wpkh", "p2sh:p2wpkh"}

\* the Sign call passed the count check
SignRan == last.op = "Sign" /\ Len(last.arg) = Len(PreOf(last.who).In) /\ Len(last.arg) > 0

\* input n of the last Sign call was reached by the loop
SignReached(n) == \A m \in 1..(n - 1) : last.arg[m].Scheme \in SupportedSchemes

\* the legacy message is used for the descriptor
LegacyStyle(k) == k.Scheme = "p2pk" \/ (k.Scheme \in {"p2pkh", "p2pukh"} /\ ~HasForkId(k))

\* t with every input script empty except that of input n
C27_WorkTx(t, n, script) ==
    [t EXCEPT !.In = [i \in 1..Len(t.In) |->
                         [t.In[i] EXCEPT !.Script = IF i = n THEN script ELSE <<>>]]]

\* the non-witness serialization of that copy, then the sighash type
C27_Message(t, n, k) ==
    exportBytes(C27_WorkTx(t, n, Generate(k.Key, k.Scheme)), FALSE) \o k.SigHash

\* version, hashPrevouts, hashSequence
SegwitPrefix(t) ==
    t.Version
    \o Hash256(Flatten([i \in 1..Len(t.In) |-> Reverse(t.In[i].TXID) \o t.In[i].Vout]))
    \o Hash256(Flatten([i \in 1..Len(t.In) |-> t.In[i].Sequence]))

\* hashOutputs, locktime
SegwitSuffix(t) ==
    Hash256(Flatten([o \in 1..Len(t.Out) |->
                        t.Out[o].Amount \o BtcVarIntBytes(Len(t.Out[o].Script))
                        \o t.Out[o].Script]))
    \o t.Locktime

\* prefix || outpoint || push(76 a9 push(HASH160(pubKey)) 88 ac) || amount || sequence
\* || suffix || sighash type
SegwitMessage(t, n, k, pubKey) ==
    SegwitPrefix(t)
    \o Reverse(t.In[n].TXID) \o t.In[n].Vout
    \o PushBytes(<<118, 169>> \o PushBytes(Hash160(pubKey)) \o <<136, 172>>)
    \o k.Amount \o t.In[n].Sequence
    \o SegwitSuffix(t) \o k.SigHash

\* the key as the scheme hashes it
SchemeKey(k) ==
    IF k.Scheme = "p2pukh" THEN SerializeUncompressed(k.Key) ELSE SerializeCompressed(k.Key)

\* the signature of the message is the first push of the script input n was given
C27_SignedInto(in, k, msg) ==
    HasPrefix(in.Script, PushBytes(SignerSign(k.Key, Hash256(msg)) \o <<k.SigHash[1]>>))

C27_InputOk(t, n, k) ==
    /\ LegacyStyle(k) =>
           /\ last.signed[n] = C27_Message(PreOf(last.who), n, k)
           /\ C27_SignedInto(t.In[n], k, C27_Message(PreOf(last.who), n, k))
    /\ (k.Scheme \in {"p2pkh", "p2pukh"} /\ HasForkId(k)) =>
           last.signed[n] = SegwitMessage(PreOf(last.who), n, k, SchemeKey(k))

\* C27: for p2pk, and for p2pkh / p2pukh without bit 0x40 in the sighash type, the
\* digest signed for input n is the double SHA-256 of the non-witness
\* serialization of a copy of the transaction whose input scripts are empty except
\* input n's, the key's scriptPubKey of the scheme, followed by the sighash type on
\* 4 bytes; with bit 0x40 p2pkh / p2pukh sign the segwit-style preimage.
C27_LegacyDigest ==
    last.op = "Sign" =>
        With(ObjView(last.who),
             LAMBDA t : \A n \in 1..Len(last.signed) : C27_InputOk(t, n, last.keys[n]))

\* the second input was signed as p2pkh after the first, which was prefilled and
\* then signed as p2pk
C27_Witness ==
    /\ last.op = "Sign" /\ last.err = NoErr
    /\ Len(last.signed) = 2
    /\ last.keys[1].Scheme = "p2pk"
    /\ last.keys[2].Scheme = "p2pkh" /\ ~HasForkId(last.keys[2])
    /\ PreOf(last.who).In[1].Script # <<>>

\* C28: for one transaction, input, key, amount and sighash type, the preimage
\* signed under p2wpkh, p2sh:p2wpkh and p2wsh:p2pkh is the same: prefix, outpoint,
\* push(76 a9 push(HASH160(compressed pubkey)) 88 ac), amount, sequence, suffix,
\* sighash type.
C28_SamePreimage ==
    SignRan =>
        \A n \in 1..Len(last.arg) :
            (SignReached(n) /\ last.arg[n].Scheme \in {"p2wpkh", "p2sh:p2wpkh", "p2wsh:p2pkh"})
            => /\ Len(last.signed) >= n
               /\ last.signed[n] = SegwitMessage(PreOf(last.who), n, last.keys[n],
                                                 SerializeCompressed(last.keys[n].Key))

\* the same for the two schemes Sign has a case for
C28_SamePreimageSupported ==
    SignRan =>
        \A n \in 1..Len(last.arg) :
            (SignReached(n) /\ last.arg[n].Scheme \in {"p2wpkh", "p2sh:p2wpkh"})
            => /\ Len(last.signed) >= n
               /\ last.signed[n] = SegwitMessage(PreOf(last.who), n, last.keys[n],
                                                 SerializeCompressed(last.keys[n].Key))

\* C29: a Sign call that returns an error after the count check leaves the
\* transaction as it was before the call.
C29_FailedSignRestores ==
    (SignRan /\ last.err # NoErr) => ObjView(last.who) = PreOf(last.who)

\* t without the scripts and witnesses of its inputs
C30_Stripped(t) ==
    [t EXCEPT !.In = [i \in 1..Len(t.In) |->
                         [t.In[i] EXCEPT !.Script = <<>>, !.Witnesses = <<>>]]]

C30_Message(t, n, k) ==
    IF LegacyStyle(k) THEN C27_Message(t, n, k) ELSE SegwitMessage(t, n, k, SchemeKey(k))

\* C30: the message signed for input n is a function of the transaction without
\* its input scripts and witnesses (version, locktime, outpoints, sequences,
\* outputs) and of input n's own descriptor, so it depends neither on what the
\* inputs held before the call nor on what the call wrote to other inputs; and
\* the segwit prefix and suffix used for every input are those a fresh
\* computation on the transaction gives once the call is over.
C30_DigestIndependent ==
    last.op = "Sign" =>
        \A n \in 1..Len(last.signed) :
            /\ last.signed[n] = C30_Message(C30_Stripped(PreOf(last.who)), n, last.keys[n])
            /\ ~LegacyStyle(last.keys[n]) =>
                   last.signed[n] = SegwitMessage(ObjView(last.who), n, last.keys[n],
                                                  SchemeKey(last.keys[n]))

\* two inputs were signed as p2wpkh, the first of them holding a prefilled witness
\* before the call
C30_Witness ==
    /\ last.op = "Sign" /\ last.err = NoErr
    /\ Len(last.signed) = 2
    /\ last.keys[1].Scheme = "p2wpkh" /\ last.keys[2].Scheme = "p2wpkh"
    /\ Len(PreOf(last.who).In[1].Witnesses) = 2
    /\ Len(ObjView(last.who).In[2].Witnesses) = 2

----------------------------------------------------------------------------
(* Specification SpecConc: two tasks each call Sign on their own Dup()     *)
(* copy of one transaction, passing the same descriptors (the variadic     *)
(* keys are pointers, so both calls see the same BtcTxSign objects).  A    *)
(* step of a task is the start of the call (count check and work copy),    *)
(* the defaulting of descriptor n (lines 87-92) or the signing of input n  *)
(* (lines 94-156).  orig holds the descriptors, cp the state of the two    *)
(* calls, last the position of each task and dec the memory accesses made  *)
(* so far.  The tasks are not synchronized, so two accesses of different   *)
(* tasks to one location, one of them a write, are a data race in every    *)
(* interleaving.                                                           *)

Tasks == {1, 2}

\* k.Options == nil and crypto.SHA256
NilOptions == "nil"

OptionsSHA256 == "crypto.SHA256"

\* lines 90-92: nil Options become crypto.SHA256 on the caller's descriptor
DefaultOptions(k) ==
    [k EXCEPT !.Options = IF k.Options = NilOptions THEN OptionsSHA256 ELSE k.Options]

ConcSchemes == {"p2pk", "p2pkh", "p2wpkh", "unsupported"}

ConcSigHashes == {Zeros(4), <<1, 0, 0, 0>>, <<65, 0, 0, 0>>}

ConcDescriptor(i, scheme, sh, opts) ==
    [Key |-> ((i - 1) % 2) + 1, Scheme |-> scheme,
     Amount |-> <<0, 70, 195, 35, 0, 0, 0, 0>>, SigHash |-> sh, Options |-> opts]

\* one descriptor per input, p2wpkh for the inputs before the last
ConcKeys(n) ==
    {[i \in 1..n |-> ConcDescriptor(i, IF i = n THEN s ELSE "p2wpkh", sh, opts)] :
        s \in ConcSchemes, sh \in ConcSigHashes, opts \in {NilOptions, OptionsSHA256}}

\* a memory access: the task, the location and whether it is a write
Read(task, loc) == [task |-> task, loc |-> loc, w |-> FALSE]

Write(task, loc) == [task |-> task, loc |-> loc, w |-> TRUE]

\* the field of a descriptor, a backing array, an input of a task's transaction,
\* the format table
DescLoc(n, field) == <<"keys", n, field>>

ArrayLoc(r) == <<"array", r>>

InputLoc(task, n) == <<"In", task, n>>

FormatsLoc == <<"Formats">>

\* lines 78-82: len(tx.In), len(keys) and tx.Dup(), which reads the scripts and
\* witness items of the inputs and the slice headers of the outputs
StartAccesses(task, t) ==
    {Read(task, InputLoc(task, n)) : n \in 1..Len(t.In)}
    \cup {Read(task, ArrayLoc(r)) :
              r \in UNION {{t.In[n].Script}
                           \cup {t.In[n].Witnesses[j] : j \in 1..Len(t.In[n].Witnesses)} :
                           n \in 1..Len(t.In)} \ {0}}

\* lines 87-92: k.SigHash and k.Options are read, and written when zero or nil
DefaultAccesses(task, n, k) ==
    {Read(task, DescLoc(n, "SigHash")), Read(task, DescLoc(n, "Options"))}
    \cup (IF k.SigHash = Zeros(4) THEN {Write(task, DescLoc(n, "SigHash"))} ELSE {})
    \cup (IF k.Options = NilOptions THEN {Write(task, DescLoc(n, "Options"))} ELSE {})

\* lines 94-156: the scheme is read; a supported scheme reads the key, the amount,
\* the sighash type and the options, the format table, the outpoints of the
\* inputs and the output scripts, and writes input n of the task's transaction
SignAccesses(task, n, k, t) ==
    {Read(task, DescLoc(n, "Scheme"))}
    \cup (IF k.Scheme \in SupportedSchemes
          THEN {Read(task, DescLoc(n, f)) : f \in {"Key", "Amount", "SigHash", "Options"}}
               \cup {Read(task, FormatsLoc)}
               \cup {Read(task, InputLoc(task, m)) : m \in 1..Len(t.In)}
               \cup {Read(task, ArrayLoc(t.Out[o].Script)) : o \in 1..Len(t.Out)}
               \cup {Write(task, InputLoc(task, n))}
          ELSE {})

At(where, n) == [at |-> where, n |-> n]

\* the call of a task before it starts: its transaction and the heap
Unstarted(t, h) ==
    [t |-> t, h |-> h, wtx |-> t, pfx |-> <<>>, err |-> NoErr, signed |-> <<>>, keys |-> <<>>]

ConcCopies(t, d1, d2) == <<Unstarted(d1.t, d2.h), Unstarted(d2.t, d2.h)>>

\* a := tx.Dup(); b := tx.Dup(); keys := []*BtcTxSign{...}
ConcInit ==
    /\ tx \in {NewTx(n) : n \in 1..MaxIn}
    /\ heap = NewTxHeap
    /\ orig \in ConcKeys(Len(tx.In))
    /\ cp = With(BtcTxDup(tx, heap),
                 LAMBDA d1 : ConcCopies(tx, d1, BtcTxDup(tx, d1.h)))
    /\ last = [pc |-> [task \in Tasks |-> At("start", 0)]]
    /\ dec = {}
    /\ wire = <<>>
    /\ scripts = <<>>

ConcStore(task, st, pc, accesses) ==
    /\ cp' = [cp EXCEPT ![task] = st]
    /\ last' = [last EXCEPT !.pc[task] = pc]
    /\ dec' = dec \cup accesses

\* the count check and wtx := tx.Dup()
ConcStart(task) ==
    /\ last.pc[task].at = "start"
    /\ \E d \in {BtcTxDup(cp[task].t, cp[task].h)} :
           IF SignCountCheck(cp[task].t, orig)
           THEN ConcStore(task, SignStart(cp[task].t, orig, d), At("default", 1),
                          StartAccesses(task, cp[task].t))
           ELSE ConcStore(task,
                          [cp[task] EXCEPT
                              !.err = "Sign requires as many keys as there are inputs"],
                          At("done", 0), {})
    /\ UNCHANGED <<tx, heap, wire, orig, scripts>>

\* if k.SigHash == 0 { k.SigHash = 1 }; if k.Options == nil { k.Options = crypto.SHA256 }
ConcDefault(task) ==
    /\ last.pc[task].at = "default"
    /\ \E n \in {last.pc[task].n} :
           /\ orig' = [orig EXCEPT ![n] = DefaultOptions(DefaultSigHash(orig[n]))]
           /\ ConcStore(task, cp[task], At("sign", n), DefaultAccesses(task, n, orig[n]))
    /\ UNCHANGED <<tx, heap, wire, scripts>>

ConcAfter(st, n) ==
    IF st.err # NoErr \/ n = Len(st.t.In) THEN At("done", n) ELSE At("default", n + 1)

\* switch k.Scheme { ... } for input n
ConcSign(task) ==
    /\ last.pc[task].at = "sign"
    /\ \E n \in {last.pc[task].n} :
           \E st \in {SignCase([cp[task] EXCEPT !.keys[n] = orig[n]], n, orig[n])} :
               ConcStore(task, st, ConcAfter(st, n),
                         SignAccesses(task, n, orig[n], cp[task].t))
    /\ UNCHANGED <<tx, heap, wire, orig, scripts>>

ConcNext == \E task \in Tasks : ConcStart(task) \/ ConcDefault(task) \/ ConcSign(task)

SpecConc == ConcInit /\ [][ConcNext]_vars

\* C26: two tasks signing two Dup() copies with the same descriptors never access
\* a memory location that the other task writes: a Sign call writes only the
\* inputs of its own copy and only reads the descriptors, the outputs and the
\* format table.
C26_NoSharedWrite ==
    \A a \in dec : \A b \in dec :
        (a.task # b.task /\ a.loc = b.loc) => (~a.w /\ ~b.w)

\* the locations of the descriptors apart, no task writes what the other accesses
C26_OnlyDescriptorsShared ==
    \A a \in dec : \A b \in dec :
        (a.task # b.task /\ a.loc = b.loc /\ a.loc[1] # "keys") => (~a.w /\ ~b.w)

====
